---- MODULE Spec2Model ----
(***************************************************************************)
(* Model of cricketscores/scores.py: the feed pipeline                     *)
(*   request_matches -> _parse_matches -> _group_by -> _join_match_group   *)
(*   -> _parse_single_match -> (_transfer_dict_keys, _get_teams,           *)
(*      _construct_time, _parse_score -> _parse_innings).                  *)
(*                                                                         *)
(* Representation of the Python values                                     *)
(*   dict            a function whose domain is a set of strings           *)
(*   list            a sequence                                            *)
(*   None            the value None below                                  *)
(*   bs4 Tag         a record with a field attrs (the attribute dict) and  *)
(*                   one field per kind of child the code looks for, each  *)
(*                   the sequence of those children in document order      *)
(*   call outcome    Return(v) or Raise(e), e the exception class          *)
(*   attribute text  a TLA+ string when the code only copies it; the       *)
(*                   sequence of its Unicode code points when the code     *)
(*                   converts it (bool, int, float, dateutil's parse)      *)
(*                                                                         *)
(* clock holds what the date parser reads of the host's clock: the year    *)
(* in which dateutil was imported and the date of today.                   *)
(***************************************************************************)
EXTENDS Integers, Sequences, FiniteSets, TLC

VARIABLES pc,
          key_pairs, source, sink, ret,
          score_element, score,
          match, data,
          xml_matches, status_code, idx, groups, matches, exc,
          clock

mapVars   == <<key_pairs, source, sink, ret>>
scoreVars == <<score_element, score>>
matchVars == <<match, data>>
feedVars  == <<xml_matches, status_code, idx, groups, matches, exc>>
vars      == <<pc, key_pairs, source, sink, ret, score_element, score,
               match, data, xml_matches, status_code, idx, groups, matches, exc, clock>>

(***************************************************************************)
(* Bounds                                                                  *)
(***************************************************************************)
MaxPairs == 3
MaxChildren == 6
MaxTeams == 3
MaxFeed == 3

(***************************************************************************)
(* Python values                                                           *)
(***************************************************************************)
None == [NoneType |-> TRUE]
IsNone(x) == DOMAIN x = {"NoneType"}

Return(v) == [exc |-> "none", value |-> v]
Raise(e) == [exc |-> e]
Raised(o) == o.exc # "none"

EmptyDict == [k \in {} |-> ""]
\* d[k] = v and d.update(e): the left operand of @@ takes precedence
SetItem(d, k, v) == (k :> v) @@ d
Update(d, e) == e @@ d

SeqsUpTo(S, n) == UNION {[1..m -> S] : m \in 0..n}
Dicts(K, V) == UNION {[D -> V] : D \in SUBSET K}
Idle == <<>>

\* obj[key] on a Tag (or on None): Tag.__getitem__ is attrs[key]
GetItem(obj, key) ==
    IF IsNone(obj) THEN Raise("TypeError")
    ELSE IF key \in DOMAIN obj.attrs THEN Return(obj.attrs[key])
    ELSE Raise("KeyError")

\* tag.find(name): the first such element in document order, or None
Find(elements) == IF elements = <<>> THEN None ELSE elements[1]

(***************************************************************************)
(* _transfer_dict_keys                                                     *)
(***************************************************************************)
\* faulty variant: an output key already in the sink is not overwritten
RECURSIVE _transfer_dict_keys_FirstWins(_, _, _)
_transfer_dict_keys_FirstWins(pairs, src, snk) ==
    IF pairs = <<>> THEN Return(snk)
    ELSE LET k1 == pairs[1][1]
             k2 == pairs[1][2]
             got == GetItem(src, k1)
         IN  IF got.exc = "KeyError" \/ (~Raised(got) /\ k2 \in DOMAIN snk)
             THEN _transfer_dict_keys_FirstWins(Tail(pairs), src, snk)
             ELSE IF Raised(got) THEN got
             ELSE _transfer_dict_keys_FirstWins(Tail(pairs), src, SetItem(snk, k2, got.value))

RECURSIVE _transfer_dict_keys(_, _, _)
_transfer_dict_keys(pairs, src, snk) ==
    IF pairs = <<>> THEN Return(snk)
    ELSE LET k1 == pairs[1][1]
             k2 == pairs[1][2]
             got == GetItem(src, k1)
         IN  IF got.exc = "KeyError"
             THEN _transfer_dict_keys(Tail(pairs), src, snk)
             ELSE IF Raised(got) THEN got
             ELSE _transfer_dict_keys(Tail(pairs), src, SetItem(snk, k2, got.value))

(***************************************************************************)
(* Text the code converts                                                  *)
(* A text is the sequence of the Unicode code points of the str.  The      *)
(* character classes are those of Python 3.11 (Unicode 14.0).              *)
(***************************************************************************)
InRanges(c, ranges) == \E k \in 1..Len(ranges) : ranges[k][1] <= c /\ c <= ranges[k][2]

\* str.isspace
SpaceRanges == <<
    <<9, 13>>, <<28, 32>>, <<133, 133>>, <<160, 160>>, <<5760, 5760>>, <<8192, 8202>>,
    <<8232, 8233>>, <<8239, 8239>>, <<8287, 8287>>, <<12288, 12288>> >>
isspace(c) == InRanges(c, SpaceRanges)

\* the zero of every run of ten decimal digits (category Nd): ASCII,
\* Arabic-Indic, Devanagari, fullwidth and the rest
DecimalZeros == <<
    48, 1632, 1776, 1984, 2406, 2534, 2662, 2790, 2918, 3046,
    3174, 3302, 3430, 3558, 3664, 3792, 3872, 4160, 4240, 6112,
    6160, 6470, 6608, 6784, 6800, 6992, 7088, 7232, 7248, 42528,
    43216, 43264, 43472, 43504, 43600, 44016, 65296, 66720, 68912, 69734,
    69872, 69942, 70096, 70384, 70736, 70864, 71248, 71360, 71472, 71904,
    72016, 72784, 73040, 73120, 92768, 92864, 93008, 120782, 120792, 120802,
    120812, 120822, 123200, 123632, 125264, 130032 >>
IsDigit(c) ==
    IF c < 128 THEN c \in 48..57
    ELSE \E k \in 1..Len(DecimalZeros) : c - DecimalZeros[k] \in 0..9
DigitVal(c) ==
    IF c < 128 THEN c - 48
    ELSE c - DecimalZeros[CHOOSE k \in 1..Len(DecimalZeros) : c - DecimalZeros[k] \in 0..9]

AllDigits(s) == \A i \in 1..Len(s) : IsDigit(s[i])
\* a run of digits less the zeros in front
DropLeadingZeros(s) ==
    IF \A k \in 1..Len(s) : DigitVal(s[k]) = 0 THEN <<>>
    ELSE SubSeq(s, CHOOSE k \in 1..Len(s) :
                       DigitVal(s[k]) # 0 /\ \A j \in 1..(k - 1) : DigitVal(s[j]) = 0,
                Len(s))
RECURSIVE DigitsVal(_)
DigitsVal(s) == IF s = <<>> THEN 0 ELSE 10 * DigitsVal(SubSeq(s, 1, Len(s) - 1)) + DigitVal(s[Len(s)])

RECURSIVE Pow10(_)
Pow10(n) == IF n = 0 THEN 1 ELSE 10 * Pow10(n - 1)

\* the place, counted from 1, of the first character of s at or after i that
\* is in cs, or one past the end
IndexFrom(s, cs, i) ==
    IF \E k \in i..Len(s) : s[k] \in cs
    THEN CHOOSE k \in i..Len(s) : s[k] \in cs /\ \A j \in i..(k - 1) : s[j] \notin cs
    ELSE IF i > Len(s) THEN i ELSE Len(s) + 1
PointIndex(s) == IndexFrom(s, {46}, 1)
Count(s, c) == Cardinality({k \in 1..Len(s) : s[k] = c})

\* str.lower, for the comparisons with ASCII words
LowerText(s) == [k \in 1..Len(s) |-> IF s[k] \in 65..90 THEN s[k] + 32 ELSE s[k]]

(***************************************************************************)
(* Conversions of attribute text: bool(str), int(str), float(str)          *)
(***************************************************************************)
\* bool(str) is len(str) != 0
PyBool(s) == Len(s) # 0

\* the whitespace int() and float() drop at both ends: the ASCII blanks and
\* the str.isspace characters outside ASCII
IsBlank(c) == IF c < 127 THEN c \in 9..13 \/ c = 32 ELSE isspace(c)
Strip(s) ==
    IF \A k \in 1..Len(s) : IsBlank(s[k]) THEN <<>>
    ELSE SubSeq(s, CHOOSE k \in 1..Len(s) : ~IsBlank(s[k]) /\ \A j \in 1..(k - 1) : IsBlank(s[j]),
                CHOOSE k \in 1..Len(s) : ~IsBlank(s[k]) /\ \A j \in (k + 1)..Len(s) : IsBlank(s[j]))

SignOf(s) == IF s # <<>> /\ s[1] = 45 THEN 0 - 1 ELSE 1
Unsigned(s) == IF s # <<>> /\ s[1] \in {43, 45} THEN Tail(s) ELSE s

\* an underscore stands between two digits
UnderscoresOk(s) ==
    \A k \in 1..Len(s) :
        s[k] = 95 => (1 < k /\ k < Len(s) /\ IsDigit(s[k - 1]) /\ IsDigit(s[k + 1]))
NotUnderscore(c) == c # 95

\* int(str): surrounding whitespace, an optional sign, decimal digits of any
\* script with single underscores between them
\* sys.get_int_max_str_digits(): int() refuses a text of more digits, the
\* zeros in front counted, with a ValueError
int_max_str_digits == 4300
IntOfBody(sign, body) ==
    IF UnderscoresOk(body) /\ Count(body, 95) < Len(body)
       /\ AllDigits(SelectSeq(body, NotUnderscore))
       /\ Len(SelectSeq(body, NotUnderscore)) <= int_max_str_digits
    THEN Return(sign * DigitsVal(DropLeadingZeros(SelectSeq(body, NotUnderscore))))
    ELSE Raise("ValueError")
PyInt(str) == IntOfBody(SignOf(Strip(str)), Unsigned(Strip(str)))

\* float(str): surrounding whitespace, an optional sign, then inf, infinity
\* or nan in any case, or digits with at most one point and an optional
\* exponent.  A finite value is kept as the decimal the text writes:
\* sign * digits * 10^exp, digits without zeros at either end (zero has no
\* digits, and -0.0 == 0.0 is the one zero).  The code holds the double
\* nearest to that decimal, ties to even: from half a step above the largest
\* double on it is an infinity, up to half the smallest double it is zero.
DropTrailingZeros(s) ==
    IF \A k \in 1..Len(s) : DigitVal(s[k]) = 0 THEN <<>>
    ELSE SubSeq(s, 1, CHOOSE k \in 1..Len(s) :
                          DigitVal(s[k]) # 0 /\ \A j \in (k + 1)..Len(s) : DigitVal(s[j]) = 0)

Finite(sign, digits, exp) == [sign |-> sign, digits |-> digits, exp |-> exp]
Infinite(sign) == [inf |-> sign]
NaN == [nan |-> TRUE]

\* the digits of 2^1024 - 2^970, a number of 309 digits: half a step above
\* the largest double, where rounding to even gives an infinity
HalfAboveLargest ==
    <<
      1, 7, 9, 7, 6, 9, 3, 1, 3, 4, 8, 6, 2, 3, 1, 5, 8, 0, 7, 9, 3, 7, 2, 8, 9, 7, 1, 4, 0, 5, 3, 0, 3, 4, 1, 5, 0, 7, 9, 9,
      3, 4, 1, 3, 2, 7, 1, 0, 0, 3, 7, 8, 2, 6, 9, 3, 6, 1, 7, 3, 7, 7, 8, 9, 8, 0, 4, 4, 4, 9, 6, 8, 2, 9, 2, 7, 6, 4, 7, 5,
      0, 9, 4, 6, 6, 4, 9, 0, 1, 7, 9, 7, 7, 5, 8, 7, 2, 0, 7, 0, 9, 6, 3, 3, 0, 2, 8, 6, 4, 1, 6, 6, 9, 2, 8, 8, 7, 9, 1, 0,
      9, 4, 6, 5, 5, 5, 5, 4, 7, 8, 5, 1, 9, 4, 0, 4, 0, 2, 6, 3, 0, 6, 5, 7, 4, 8, 8, 6, 7, 1, 5, 0, 5, 8, 2, 0, 6, 8, 1, 9,
      0, 8, 9, 0, 2, 0, 0, 0, 7, 0, 8, 3, 8, 3, 6, 7, 6, 2, 7, 3, 8, 5, 4, 8, 4, 5, 8, 1, 7, 7, 1, 1, 5, 3, 1, 7, 6, 4, 4, 7,
      5, 7, 3, 0, 2, 7, 0, 0, 6, 9, 8, 5, 5, 5, 7, 1, 3, 6, 6, 9, 5, 9, 6, 2, 2, 8, 4, 2, 9, 1, 4, 8, 1, 9, 8, 6, 0, 8, 3, 4,
      9, 3, 6, 4, 7, 5, 2, 9, 2, 7, 1, 9, 0, 7, 4, 1, 6, 8, 4, 4, 4, 3, 6, 5, 5, 1, 0, 7, 0, 4, 3, 4, 2, 7, 1, 1, 5, 5, 9, 6,
      9, 9, 5, 0, 8, 0, 9, 3, 0, 4, 2, 8, 8, 0, 1, 7, 7, 9, 0, 4, 1, 7, 4, 4, 9, 7, 7, 9, 2
    >>
\* the digits of 2^-1075, whose first digit is in place 10^-324: half the
\* smallest double, where rounding to even gives zero
HalfSmallest ==
    <<
      2, 4, 7, 0, 3, 2, 8, 2, 2, 9, 2, 0, 6, 2, 3, 2, 7, 2, 0, 8, 8, 2, 8, 4, 3, 9, 6, 4, 3, 4, 1, 1, 0, 6, 8, 6, 1, 8, 2, 5,
      2, 9, 9, 0, 1, 3, 0, 7, 1, 6, 2, 3, 8, 2, 2, 1, 2, 7, 9, 2, 8, 4, 1, 2, 5, 0, 3, 3, 7, 7, 5, 3, 6, 3, 5, 1, 0, 4, 3, 7,
      5, 9, 3, 2, 6, 4, 9, 9, 1, 8, 1, 8, 0, 8, 1, 7, 9, 9, 6, 1, 8, 9, 8, 9, 8, 2, 8, 2, 3, 4, 7, 7, 2, 2, 8, 5, 8, 8, 6, 5,
      4, 6, 3, 3, 2, 8, 3, 5, 5, 1, 7, 7, 9, 6, 9, 8, 9, 8, 1, 9, 9, 3, 8, 7, 3, 9, 8, 0, 0, 5, 3, 9, 0, 9, 3, 9, 0, 6, 3, 1,
      5, 0, 3, 5, 6, 5, 9, 5, 1, 5, 5, 7, 0, 2, 2, 6, 3, 9, 2, 2, 9, 0, 8, 5, 8, 3, 9, 2, 4, 4, 9, 1, 0, 5, 1, 8, 4, 4, 3, 5,
      9, 3, 1, 8, 0, 2, 8, 4, 9, 9, 3, 6, 5, 3, 6, 1, 5, 2, 5, 0, 0, 3, 1, 9, 3, 7, 0, 4, 5, 7, 6, 7, 8, 2, 4, 9, 2, 1, 9, 3,
      6, 5, 6, 2, 3, 6, 6, 9, 8, 6, 3, 6, 5, 8, 4, 8, 0, 7, 5, 7, 0, 0, 1, 5, 8, 5, 7, 6, 9, 2, 6, 9, 9, 0, 3, 7, 0, 6, 3, 1,
      1, 9, 2, 8, 2, 7, 9, 5, 5, 8, 5, 5, 1, 3, 3, 2, 9, 2, 7, 8, 3, 4, 3, 3, 8, 4, 0, 9, 3, 5, 1, 9, 7, 8, 0, 1, 5, 5, 3, 1,
      2, 4, 6, 5, 9, 7, 2, 6, 3, 5, 7, 9, 5, 7, 4, 6, 2, 2, 7, 6, 6, 4, 6, 5, 2, 7, 2, 8, 2, 7, 2, 2, 0, 0, 5, 6, 3, 7, 4, 0,
      0, 6, 4, 8, 5, 4, 9, 9, 9, 7, 7, 0, 9, 6, 5, 9, 9, 4, 7, 0, 4, 5, 4, 0, 2, 0, 8, 2, 8, 1, 6, 6, 2, 2, 6, 2, 3, 7, 8, 5,
      7, 3, 9, 3, 4, 5, 0, 7, 3, 6, 3, 3, 9, 0, 0, 7, 9, 6, 7, 7, 6, 1, 9, 3, 0, 5, 7, 7, 5, 0, 6, 7, 4, 0, 1, 7, 6, 3, 2, 4,
      6, 7, 3, 6, 0, 0, 9, 6, 8, 9, 5, 1, 3, 4, 0, 5, 3, 5, 5, 3, 7, 4, 5, 8, 5, 1, 6, 6, 6, 1, 1, 3, 4, 2, 2, 3, 7, 6, 6, 6,
      7, 8, 6, 0, 4, 1, 6, 2, 1, 5, 9, 6, 8, 0, 4, 6, 1, 9, 1, 4, 4, 6, 7, 2, 9, 1, 8, 4, 0, 3, 0, 0, 5, 3, 0, 0, 5, 7, 5, 3,
      0, 8, 4, 9, 0, 4, 8, 7, 6, 5, 3, 9, 1, 7, 1, 1, 3, 8, 6, 5, 9, 1, 6, 4, 6, 2, 3, 9, 5, 2, 4, 9, 1, 2, 6, 2, 3, 6, 5, 3,
      8, 8, 1, 8, 7, 9, 6, 3, 6, 2, 3, 9, 3, 7, 3, 2, 8, 0, 4, 2, 3, 8, 9, 1, 0, 1, 8, 6, 7, 2, 3, 4, 8, 4, 9, 7, 6, 6, 8, 2,
      3, 5, 0, 8, 9, 8, 6, 3, 3, 8, 8, 5, 8, 7, 9, 2, 5, 6, 2, 8, 3, 0, 2, 7, 5, 5, 9, 9, 5, 6, 5, 7, 5, 2, 4, 4, 5, 5, 5, 0,
      7, 2, 5, 5, 1, 8, 9, 3, 1, 3, 6, 9, 0, 8, 3, 6, 2, 5, 4, 7, 7, 9, 1, 8, 6, 9, 4, 8, 6, 6, 7, 9, 9, 4, 9, 6, 8, 3, 2, 4,
      0, 4, 9, 7, 0, 5, 8, 2, 1, 0, 2, 8, 5, 1, 3, 1, 8, 5, 4, 5, 1, 3, 9, 6, 2, 1, 3, 8, 3, 7, 7, 2, 2, 8, 2, 6, 1, 4, 5, 4,
      3, 7, 6, 9, 3, 4, 1, 2, 5, 3, 2, 0, 9, 8, 5, 9, 1, 3, 2, 7, 6, 6, 7, 2, 3, 6, 3, 2, 8, 1, 2, 5
    >>

\* 0.a < 0.b for sequences of digit values a and b
DigitsLess(a, b) ==
    \E k \in 1..Len(b) :
        /\ (IF k <= Len(a) THEN a[k] ELSE 0) < b[k]
        /\ \A j \in 1..(k - 1) : (IF j <= Len(a) THEN a[j] ELSE 0) = b[j]

\* sig * 10^ex, sig digit values without zeros at either end
FloatOfSig(sign, sig, ex) ==
    IF sig = <<>> THEN Return(Finite(1, <<>>, 0))
    ELSE IF Len(sig) - 1 + ex > 308
            \/ (Len(sig) - 1 + ex = 308 /\ ~DigitsLess(sig, HalfAboveLargest))
    THEN Return(Infinite(sign))
    ELSE IF Len(sig) - 1 + ex < 0 - 324
            \/ (Len(sig) - 1 + ex = 0 - 324 /\ ~DigitsLess(HalfSmallest, sig))
    THEN Return(Finite(1, <<>>, 0))
    ELSE Return(Finite(sign, sig, ex))
\* lead * 10^ex, lead digits without zeros in front
FloatOfParts(sign, lead, ex) ==
    FloatOfSig(sign, [k \in 1..Len(DropTrailingZeros(lead)) |-> DigitVal(lead[k])],
               ex + Len(lead) - Len(DropTrailingZeros(lead)))

\* the limits of the string to double conversion: the most digits of a
\* mantissa and of its fraction, and the exponent that stands for every
\* exponent of more than nine digits
MAX_DIGITS == 1000000000
MAX_ABS_EXP == 1100000000
\* the exponent after e, read whole when it has nine digits or fewer after
\* its zeros in front
ExponentOf(ex) ==
    IF Unsigned(ex) = <<>> \/ ~AllDigits(Unsigned(ex)) THEN Raise("ValueError")
    ELSE IF Len(DropLeadingZeros(Unsigned(ex))) > 9 THEN Return(SignOf(ex) * MAX_ABS_EXP)
    ELSE Return(SignOf(ex) * DigitsVal(DropLeadingZeros(Unsigned(ex))))
\* whole.fract * 10^ex
FloatOfMantissa(sign, whole, fract, ex) ==
    IF \/ Raised(ex) \/ whole \o fract = <<>> \/ ~AllDigits(whole \o fract)
       \/ Len(DropLeadingZeros(whole \o fract)) > MAX_DIGITS \/ Len(fract) > MAX_DIGITS
    THEN Raise("ValueError")
    ELSE FloatOfParts(sign, DropLeadingZeros(whole \o fract), ex.value - Len(fract))
\* e is the place of the first e or E in body
FloatOfSplit(sign, body, e) ==
    FloatOfMantissa(sign, SubSeq(body, 1, IndexFrom(body, {46, 69, 101}, 1) - 1),
                    SubSeq(body, IndexFrom(body, {46, 69, 101}, 1) + 1, e - 1),
                    IF e > Len(body) THEN Return(0) ELSE ExponentOf(SubSeq(body, e + 1, Len(body))))
FloatOfBody(sign, body) ==
    IF LowerText(body) \in {<<105, 110, 102>>, <<105, 110, 102, 105, 110, 105, 116, 121>>}
    THEN Return(Infinite(sign))
    ELSE IF LowerText(body) = <<110, 97, 110>> THEN Return(NaN)
    ELSE FloatOfSplit(sign, body, IndexFrom(body, {69, 101}, 1))
PyFloat(str) ==
    IF UnderscoresOk(Strip(str))
    THEN FloatOfBody(SignOf(Strip(str)), SelectSeq(Unsigned(Strip(str)), NotUnderscore))
    ELSE Raise("ValueError")

\* bool(x), float(x), int(x) of a looked-up attribute: a failed lookup propagates
BoolOf(o) == IF Raised(o) THEN o ELSE Return(PyBool(o.value))
FloatOf(o) == IF Raised(o) THEN o ELSE PyFloat(o.value)
IntOf(o) == IF Raised(o) THEN o ELSE PyInt(o.value)

\* The first exception of a sequence of outcomes evaluated left to right
FirstRaised(os) == os[CHOOSE i \in 1..Len(os) : Raised(os[i]) /\ \A j \in 1..(i - 1) : ~Raised(os[j])]
AnyRaised(os) == \E i \in 1..Len(os) : Raised(os[i])

(***************************************************************************)
(* _parse_innings                                                          *)
(***************************************************************************)
IsText(node) == "text" \in DOMAIN node

\* node[key]: a NavigableString is a str, whose index must be an integer
NodeItem(node, key) == IF IsText(node) THEN Raise("TypeError") ELSE GetItem(node, key)

\* node.Inngs[key]: node.Inngs is node.find('Inngs'); a str has no Inngs
InngsItem(node, key) ==
    IF IsText(node) THEN Raise("AttributeError") ELSE GetItem(Find(node.Inngs), key)

\* one of the two dict displays of _parse_innings: the entries are evaluated
\* in source order and the first exception ends the call
SideFigures(os) ==
    IF AnyRaised(os) THEN FirstRaised(os)
    ELSE Return([team |-> os[1].value, declare |-> os[2].value,
                 follow_on |-> os[3].value, overs |-> os[4].value,
                 runs |-> os[5].value, wickets |-> os[6].value])

ParseSide(side) ==
    SideFigures(<< NodeItem(side, "sName"),
                   BoolOf(InngsItem(side, "Decl")),
                   BoolOf(InngsItem(side, "FollowOn")),
                   FloatOf(InngsItem(side, "ovrs")),
                   IntOf(InngsItem(side, "r")),
                   IntOf(InngsItem(side, "wkts")) >>)

InningsRecord(batting, bowling) ==
    IF Raised(batting) THEN batting
    ELSE IF Raised(bowling) THEN bowling
    ELSE Return([batting |-> batting.value, bowling |-> bowling.value])

_parse_innings(detail, bat, bowl) == InningsRecord(ParseSide(bat), ParseSide(bowl))

(***************************************************************************)
(* _parse_score                                                            *)
(***************************************************************************)
NotNewline(child) == ~(IsText(child) /\ child.text = "\n")

\* score is the dict _parse_innings returned: it has no append
ScoreWithRest(sc, rest) ==
    IF Raised(sc) THEN sc
    ELSE IF rest # <<>> THEN Raise("AttributeError")
    ELSE sc

\* _parse_innings(*first_innings) takes exactly three arguments
ScoreOfSlices(first_innings, rest) ==
    IF Len(first_innings) # 3 THEN Raise("TypeError")
    ELSE ScoreWithRest(_parse_innings(first_innings[1], first_innings[2], first_innings[3]), rest)

ScoreOfChildren(children) ==
    ScoreOfSlices(SubSeq(children, 1, IF Len(children) < 3 THEN Len(children) ELSE 3),
                  SubSeq(children, 4, Len(children)))

_parse_score(element) == ScoreOfChildren(SelectSeq(element.children, NotNewline))

(***************************************************************************)
(* Inputs of the innings parser                                            *)
(***************************************************************************)
Newline == [text |-> "\n"]
Detail == [attrs |-> [rrr |-> "4.5"], Inngs |-> <<>>]
InngsTag(decl, follow, ovrs, r, wkts) ==
    [attrs |-> [Decl |-> decl, FollowOn |-> follow, ovrs |-> ovrs, r |-> r, wkts |-> wkts]]
Side(name, inngs) == [attrs |-> [sName |-> name], Inngs |-> inngs]

\* Decl "0", FollowOn "0", ovrs "20.3", r "187", wkts "4"
SideIND == Side("IND", <<InngsTag(<<48>>, <<48>>, <<50, 48, 46, 51>>, <<49, 56, 55>>, <<52>>)>>)
\* Decl "1", FollowOn "", ovrs "1e1", r "4_2", wkts "10" in Arabic-Indic digits
SideAUS == Side("AUS", <<InngsTag(<<49>>, <<>>, <<49, 101, 49>>, <<52, 95, 50>>, <<1633, 1632>>)>>)
SideNoInngs == Side("NZ", <<>>)
\* Decl "", FollowOn "1", ovrs "5.0", r "x", wkts "2"
SideBadRuns == Side("ENG", <<InngsTag(<<>>, <<49>>, <<53, 46, 48>>, <<120>>, <<50>>)>>)

ScoreNodes == {Newline, Detail, SideIND, SideAUS, SideNoInngs, SideBadRuns}
ScoreElements == {[attrs |-> EmptyDict, children |-> c] : c \in SeqsUpTo(ScoreNodes, MaxChildren)}

(***************************************************************************)
(* _get_teams                                                              *)
(***************************************************************************)
TeamRecord(name, id) ==
    IF Raised(name) THEN name
    ELSE IF Raised(id) THEN id
    ELSE Return([name |-> name.value, id |-> id.value])
TeamEntry(team) == TeamRecord(GetItem(team, "Name"), GetItem(team, "id"))

\* the list comprehension over match.find_all('Tm')
TeamEntries(match_element) == [i \in 1..Len(match_element.Tm) |-> TeamEntry(match_element.Tm[i])]

\* faulty variant: only fewer than two teams give None
TeamsOrNone_AtLeastTwo(entries) ==
    IF AnyRaised(entries) THEN FirstRaised(entries)
    ELSE IF Len(entries) < 2 THEN Return(None)
    ELSE Return([i \in 1..Len(entries) |-> entries[i].value])

\* if len(teams) != 2: return None
TeamsOrNone(entries) ==
    IF AnyRaised(entries) THEN FirstRaised(entries)
    ELSE IF Len(entries) # 2 THEN Return(None)
    ELSE Return([i \in 1..Len(entries) |-> entries[i].value])

_get_teams(match_element) == TeamsOrNone(TeamEntries(match_element))

(***************************************************************************)
(* dateutil.parser.parse, python-dateutil 2.9.0, as _construct_time calls  *)
(* it: the default parser, no default datetime, no tzinfos, not fuzzy,     *)
(* dayfirst and yearfirst False.  The operators keep the names of the      *)
(* library's functions.  Tokens and characters are numbered from 0 as in   *)
(* the library.  An attribute the library leaves None is <<>> here and one *)
(* it has set to v is <<v>>.                                               *)
(*                                                                         *)
(* The library reads the clock: parserinfo keeps the year of its creation  *)
(* (info_year) and parse takes today's date for the fields the text does   *)
(* not give.  A clock is the record of those four numbers.                 *)
(***************************************************************************)
\* str.isalpha outside ASCII
AlphaRanges == <<
    <<170, 170>>, <<181, 181>>, <<186, 186>>, <<192, 214>>, <<216, 246>>, <<248, 705>>,
    <<710, 721>>, <<736, 740>>, <<748, 748>>, <<750, 750>>, <<880, 884>>, <<886, 887>>,
    <<890, 893>>, <<895, 895>>, <<902, 902>>, <<904, 906>>, <<908, 908>>, <<910, 929>>,
    <<931, 1013>>, <<1015, 1153>>, <<1162, 1327>>, <<1329, 1366>>, <<1369, 1369>>, <<1376, 1416>>,
    <<1488, 1514>>, <<1519, 1522>>, <<1568, 1610>>, <<1646, 1647>>, <<1649, 1747>>, <<1749, 1749>>,
    <<1765, 1766>>, <<1774, 1775>>, <<1786, 1788>>, <<1791, 1791>>, <<1808, 1808>>, <<1810, 1839>>,
    <<1869, 1957>>, <<1969, 1969>>, <<1994, 2026>>, <<2036, 2037>>, <<2042, 2042>>, <<2048, 2069>>,
    <<2074, 2074>>, <<2084, 2084>>, <<2088, 2088>>, <<2112, 2136>>, <<2144, 2154>>, <<2160, 2183>>,
    <<2185, 2190>>, <<2208, 2249>>, <<2308, 2361>>, <<2365, 2365>>, <<2384, 2384>>, <<2392, 2401>>,
    <<2417, 2432>>, <<2437, 2444>>, <<2447, 2448>>, <<2451, 2472>>, <<2474, 2480>>, <<2482, 2482>>,
    <<2486, 2489>>, <<2493, 2493>>, <<2510, 2510>>, <<2524, 2525>>, <<2527, 2529>>, <<2544, 2545>>,
    <<2556, 2556>>, <<2565, 2570>>, <<2575, 2576>>, <<2579, 2600>>, <<2602, 2608>>, <<2610, 2611>>,
    <<2613, 2614>>, <<2616, 2617>>, <<2649, 2652>>, <<2654, 2654>>, <<2674, 2676>>, <<2693, 2701>>,
    <<2703, 2705>>, <<2707, 2728>>, <<2730, 2736>>, <<2738, 2739>>, <<2741, 2745>>, <<2749, 2749>>,
    <<2768, 2768>>, <<2784, 2785>>, <<2809, 2809>>, <<2821, 2828>>, <<2831, 2832>>, <<2835, 2856>>,
    <<2858, 2864>>, <<2866, 2867>>, <<2869, 2873>>, <<2877, 2877>>, <<2908, 2909>>, <<2911, 2913>>,
    <<2929, 2929>>, <<2947, 2947>>, <<2949, 2954>>, <<2958, 2960>>, <<2962, 2965>>, <<2969, 2970>>,
    <<2972, 2972>>, <<2974, 2975>>, <<2979, 2980>>, <<2984, 2986>>, <<2990, 3001>>, <<3024, 3024>>,
    <<3077, 3084>>, <<3086, 3088>>, <<3090, 3112>>, <<3114, 3129>>, <<3133, 3133>>, <<3160, 3162>>,
    <<3165, 3165>>, <<3168, 3169>>, <<3200, 3200>>, <<3205, 3212>>, <<3214, 3216>>, <<3218, 3240>>,
    <<3242, 3251>>, <<3253, 3257>>, <<3261, 3261>>, <<3293, 3294>>, <<3296, 3297>>, <<3313, 3314>>,
    <<3332, 3340>>, <<3342, 3344>>, <<3346, 3386>>, <<3389, 3389>>, <<3406, 3406>>, <<3412, 3414>>,
    <<3423, 3425>>, <<3450, 3455>>, <<3461, 3478>>, <<3482, 3505>>, <<3507, 3515>>, <<3517, 3517>>,
    <<3520, 3526>>, <<3585, 3632>>, <<3634, 3635>>, <<3648, 3654>>, <<3713, 3714>>, <<3716, 3716>>,
    <<3718, 3722>>, <<3724, 3747>>, <<3749, 3749>>, <<3751, 3760>>, <<3762, 3763>>, <<3773, 3773>>,
    <<3776, 3780>>, <<3782, 3782>>, <<3804, 3807>>, <<3840, 3840>>, <<3904, 3911>>, <<3913, 3948>>,
    <<3976, 3980>>, <<4096, 4138>>, <<4159, 4159>>, <<4176, 4181>>, <<4186, 4189>>, <<4193, 4193>>,
    <<4197, 4198>>, <<4206, 4208>>, <<4213, 4225>>, <<4238, 4238>>, <<4256, 4293>>, <<4295, 4295>>,
    <<4301, 4301>>, <<4304, 4346>>, <<4348, 4680>>, <<4682, 4685>>, <<4688, 4694>>, <<4696, 4696>>,
    <<4698, 4701>>, <<4704, 4744>>, <<4746, 4749>>, <<4752, 4784>>, <<4786, 4789>>, <<4792, 4798>>,
    <<4800, 4800>>, <<4802, 4805>>, <<4808, 4822>>, <<4824, 4880>>, <<4882, 4885>>, <<4888, 4954>>,
    <<4992, 5007>>, <<5024, 5109>>, <<5112, 5117>>, <<5121, 5740>>, <<5743, 5759>>, <<5761, 5786>>,
    <<5792, 5866>>, <<5873, 5880>>, <<5888, 5905>>, <<5919, 5937>>, <<5952, 5969>>, <<5984, 5996>>,
    <<5998, 6000>>, <<6016, 6067>>, <<6103, 6103>>, <<6108, 6108>>, <<6176, 6264>>, <<6272, 6276>>,
    <<6279, 6312>>, <<6314, 6314>>, <<6320, 6389>>, <<6400, 6430>>, <<6480, 6509>>, <<6512, 6516>>,
    <<6528, 6571>>, <<6576, 6601>>, <<6656, 6678>>, <<6688, 6740>>, <<6823, 6823>>, <<6917, 6963>>,
    <<6981, 6988>>, <<7043, 7072>>, <<7086, 7087>>, <<7098, 7141>>, <<7168, 7203>>, <<7245, 7247>>,
    <<7258, 7293>>, <<7296, 7304>>, <<7312, 7354>>, <<7357, 7359>>, <<7401, 7404>>, <<7406, 7411>>,
    <<7413, 7414>>, <<7418, 7418>>, <<7424, 7615>>, <<7680, 7957>>, <<7960, 7965>>, <<7968, 8005>>,
    <<8008, 8013>>, <<8016, 8023>>, <<8025, 8025>>, <<8027, 8027>>, <<8029, 8029>>, <<8031, 8061>>,
    <<8064, 8116>>, <<8118, 8124>>, <<8126, 8126>>, <<8130, 8132>>, <<8134, 8140>>, <<8144, 8147>>,
    <<8150, 8155>>, <<8160, 8172>>, <<8178, 8180>>, <<8182, 8188>>, <<8305, 8305>>, <<8319, 8319>>,
    <<8336, 8348>>, <<8450, 8450>>, <<8455, 8455>>, <<8458, 8467>>, <<8469, 8469>>, <<8473, 8477>>,
    <<8484, 8484>>, <<8486, 8486>>, <<8488, 8488>>, <<8490, 8493>>, <<8495, 8505>>, <<8508, 8511>>,
    <<8517, 8521>>, <<8526, 8526>>, <<8579, 8580>>, <<11264, 11492>>, <<11499, 11502>>, <<11506, 11507>>,
    <<11520, 11557>>, <<11559, 11559>>, <<11565, 11565>>, <<11568, 11623>>, <<11631, 11631>>, <<11648, 11670>>,
    <<11680, 11686>>, <<11688, 11694>>, <<11696, 11702>>, <<11704, 11710>>, <<11712, 11718>>, <<11720, 11726>>,
    <<11728, 11734>>, <<11736, 11742>>, <<11823, 11823>>, <<12293, 12294>>, <<12337, 12341>>, <<12347, 12348>>,
    <<12353, 12438>>, <<12445, 12447>>, <<12449, 12538>>, <<12540, 12543>>, <<12549, 12591>>, <<12593, 12686>>,
    <<12704, 12735>>, <<12784, 12799>>, <<13312, 19903>>, <<19968, 42124>>, <<42192, 42237>>, <<42240, 42508>>,
    <<42512, 42527>>, <<42538, 42539>>, <<42560, 42606>>, <<42623, 42653>>, <<42656, 42725>>, <<42775, 42783>>,
    <<42786, 42888>>, <<42891, 42954>>, <<42960, 42961>>, <<42963, 42963>>, <<42965, 42969>>, <<42994, 43009>>,
    <<43011, 43013>>, <<43015, 43018>>, <<43020, 43042>>, <<43072, 43123>>, <<43138, 43187>>, <<43250, 43255>>,
    <<43259, 43259>>, <<43261, 43262>>, <<43274, 43301>>, <<43312, 43334>>, <<43360, 43388>>, <<43396, 43442>>,
    <<43471, 43471>>, <<43488, 43492>>, <<43494, 43503>>, <<43514, 43518>>, <<43520, 43560>>, <<43584, 43586>>,
    <<43588, 43595>>, <<43616, 43638>>, <<43642, 43642>>, <<43646, 43695>>, <<43697, 43697>>, <<43701, 43702>>,
    <<43705, 43709>>, <<43712, 43712>>, <<43714, 43714>>, <<43739, 43741>>, <<43744, 43754>>, <<43762, 43764>>,
    <<43777, 43782>>, <<43785, 43790>>, <<43793, 43798>>, <<43808, 43814>>, <<43816, 43822>>, <<43824, 43866>>,
    <<43868, 43881>>, <<43888, 44002>>, <<44032, 55203>>, <<55216, 55238>>, <<55243, 55291>>, <<63744, 64109>>,
    <<64112, 64217>>, <<64256, 64262>>, <<64275, 64279>>, <<64285, 64285>>, <<64287, 64296>>, <<64298, 64310>>,
    <<64312, 64316>>, <<64318, 64318>>, <<64320, 64321>>, <<64323, 64324>>, <<64326, 64433>>, <<64467, 64829>>,
    <<64848, 64911>>, <<64914, 64967>>, <<65008, 65019>>, <<65136, 65140>>, <<65142, 65276>>, <<65313, 65338>>,
    <<65345, 65370>>, <<65382, 65470>>, <<65474, 65479>>, <<65482, 65487>>, <<65490, 65495>>, <<65498, 65500>>,
    <<65536, 65547>>, <<65549, 65574>>, <<65576, 65594>>, <<65596, 65597>>, <<65599, 65613>>, <<65616, 65629>>,
    <<65664, 65786>>, <<66176, 66204>>, <<66208, 66256>>, <<66304, 66335>>, <<66349, 66368>>, <<66370, 66377>>,
    <<66384, 66421>>, <<66432, 66461>>, <<66464, 66499>>, <<66504, 66511>>, <<66560, 66717>>, <<66736, 66771>>,
    <<66776, 66811>>, <<66816, 66855>>, <<66864, 66915>>, <<66928, 66938>>, <<66940, 66954>>, <<66956, 66962>>,
    <<66964, 66965>>, <<66967, 66977>>, <<66979, 66993>>, <<66995, 67001>>, <<67003, 67004>>, <<67072, 67382>>,
    <<67392, 67413>>, <<67424, 67431>>, <<67456, 67461>>, <<67463, 67504>>, <<67506, 67514>>, <<67584, 67589>>,
    <<67592, 67592>>, <<67594, 67637>>, <<67639, 67640>>, <<67644, 67644>>, <<67647, 67669>>, <<67680, 67702>>,
    <<67712, 67742>>, <<67808, 67826>>, <<67828, 67829>>, <<67840, 67861>>, <<67872, 67897>>, <<67968, 68023>>,
    <<68030, 68031>>, <<68096, 68096>>, <<68112, 68115>>, <<68117, 68119>>, <<68121, 68149>>, <<68192, 68220>>,
    <<68224, 68252>>, <<68288, 68295>>, <<68297, 68324>>, <<68352, 68405>>, <<68416, 68437>>, <<68448, 68466>>,
    <<68480, 68497>>, <<68608, 68680>>, <<68736, 68786>>, <<68800, 68850>>, <<68864, 68899>>, <<69248, 69289>>,
    <<69296, 69297>>, <<69376, 69404>>, <<69415, 69415>>, <<69424, 69445>>, <<69488, 69505>>, <<69552, 69572>>,
    <<69600, 69622>>, <<69635, 69687>>, <<69745, 69746>>, <<69749, 69749>>, <<69763, 69807>>, <<69840, 69864>>,
    <<69891, 69926>>, <<69956, 69956>>, <<69959, 69959>>, <<69968, 70002>>, <<70006, 70006>>, <<70019, 70066>>,
    <<70081, 70084>>, <<70106, 70106>>, <<70108, 70108>>, <<70144, 70161>>, <<70163, 70187>>, <<70272, 70278>>,
    <<70280, 70280>>, <<70282, 70285>>, <<70287, 70301>>, <<70303, 70312>>, <<70320, 70366>>, <<70405, 70412>>,
    <<70415, 70416>>, <<70419, 70440>>, <<70442, 70448>>, <<70450, 70451>>, <<70453, 70457>>, <<70461, 70461>>,
    <<70480, 70480>>, <<70493, 70497>>, <<70656, 70708>>, <<70727, 70730>>, <<70751, 70753>>, <<70784, 70831>>,
    <<70852, 70853>>, <<70855, 70855>>, <<71040, 71086>>, <<71128, 71131>>, <<71168, 71215>>, <<71236, 71236>>,
    <<71296, 71338>>, <<71352, 71352>>, <<71424, 71450>>, <<71488, 71494>>, <<71680, 71723>>, <<71840, 71903>>,
    <<71935, 71942>>, <<71945, 71945>>, <<71948, 71955>>, <<71957, 71958>>, <<71960, 71983>>, <<71999, 71999>>,
    <<72001, 72001>>, <<72096, 72103>>, <<72106, 72144>>, <<72161, 72161>>, <<72163, 72163>>, <<72192, 72192>>,
    <<72203, 72242>>, <<72250, 72250>>, <<72272, 72272>>, <<72284, 72329>>, <<72349, 72349>>, <<72368, 72440>>,
    <<72704, 72712>>, <<72714, 72750>>, <<72768, 72768>>, <<72818, 72847>>, <<72960, 72966>>, <<72968, 72969>>,
    <<72971, 73008>>, <<73030, 73030>>, <<73056, 73061>>, <<73063, 73064>>, <<73066, 73097>>, <<73112, 73112>>,
    <<73440, 73458>>, <<73648, 73648>>, <<73728, 74649>>, <<74880, 75075>>, <<77712, 77808>>, <<77824, 78894>>,
    <<82944, 83526>>, <<92160, 92728>>, <<92736, 92766>>, <<92784, 92862>>, <<92880, 92909>>, <<92928, 92975>>,
    <<92992, 92995>>, <<93027, 93047>>, <<93053, 93071>>, <<93760, 93823>>, <<93952, 94026>>, <<94032, 94032>>,
    <<94099, 94111>>, <<94176, 94177>>, <<94179, 94179>>, <<94208, 100343>>, <<100352, 101589>>, <<101632, 101640>>,
    <<110576, 110579>>, <<110581, 110587>>, <<110589, 110590>>, <<110592, 110882>>, <<110928, 110930>>, <<110948, 110951>>,
    <<110960, 111355>>, <<113664, 113770>>, <<113776, 113788>>, <<113792, 113800>>, <<113808, 113817>>, <<119808, 119892>>,
    <<119894, 119964>>, <<119966, 119967>>, <<119970, 119970>>, <<119973, 119974>>, <<119977, 119980>>, <<119982, 119993>>,
    <<119995, 119995>>, <<119997, 120003>>, <<120005, 120069>>, <<120071, 120074>>, <<120077, 120084>>, <<120086, 120092>>,
    <<120094, 120121>>, <<120123, 120126>>, <<120128, 120132>>, <<120134, 120134>>, <<120138, 120144>>, <<120146, 120485>>,
    <<120488, 120512>>, <<120514, 120538>>, <<120540, 120570>>, <<120572, 120596>>, <<120598, 120628>>, <<120630, 120654>>,
    <<120656, 120686>>, <<120688, 120712>>, <<120714, 120744>>, <<120746, 120770>>, <<120772, 120779>>, <<122624, 122654>>,
    <<123136, 123180>>, <<123191, 123197>>, <<123214, 123214>>, <<123536, 123565>>, <<123584, 123627>>, <<124896, 124902>>,
    <<124904, 124907>>, <<124909, 124910>>, <<124912, 124926>>, <<124928, 125124>>, <<125184, 125251>>, <<125259, 125259>>,
    <<126464, 126467>>, <<126469, 126495>>, <<126497, 126498>>, <<126500, 126500>>, <<126503, 126503>>, <<126505, 126514>>,
    <<126516, 126519>>, <<126521, 126521>>, <<126523, 126523>>, <<126530, 126530>>, <<126535, 126535>>, <<126537, 126537>>,
    <<126539, 126539>>, <<126541, 126543>>, <<126545, 126546>>, <<126548, 126548>>, <<126551, 126551>>, <<126553, 126553>>,
    <<126555, 126555>>, <<126557, 126557>>, <<126559, 126559>>, <<126561, 126562>>, <<126564, 126564>>, <<126567, 126570>>,
    <<126572, 126578>>, <<126580, 126583>>, <<126585, 126588>>, <<126590, 126590>>, <<126592, 126601>>, <<126603, 126619>>,
    <<126625, 126627>>, <<126629, 126633>>, <<126635, 126651>>, <<131072, 173791>>, <<173824, 177976>>, <<177984, 178205>>,
    <<178208, 183969>>, <<183984, 191456>>, <<194560, 195101>>, <<196608, 201546>> >>
\* str.isdigit outside ASCII
DigitRanges == <<
    <<178, 179>>, <<185, 185>>, <<1632, 1641>>, <<1776, 1785>>, <<1984, 1993>>, <<2406, 2415>>,
    <<2534, 2543>>, <<2662, 2671>>, <<2790, 2799>>, <<2918, 2927>>, <<3046, 3055>>, <<3174, 3183>>,
    <<3302, 3311>>, <<3430, 3439>>, <<3558, 3567>>, <<3664, 3673>>, <<3792, 3801>>, <<3872, 3881>>,
    <<4160, 4169>>, <<4240, 4249>>, <<4969, 4977>>, <<6112, 6121>>, <<6160, 6169>>, <<6470, 6479>>,
    <<6608, 6618>>, <<6784, 6793>>, <<6800, 6809>>, <<6992, 7001>>, <<7088, 7097>>, <<7232, 7241>>,
    <<7248, 7257>>, <<8304, 8304>>, <<8308, 8313>>, <<8320, 8329>>, <<9312, 9320>>, <<9332, 9340>>,
    <<9352, 9360>>, <<9450, 9450>>, <<9461, 9469>>, <<9471, 9471>>, <<10102, 10110>>, <<10112, 10120>>,
    <<10122, 10130>>, <<42528, 42537>>, <<43216, 43225>>, <<43264, 43273>>, <<43472, 43481>>, <<43504, 43513>>,
    <<43600, 43609>>, <<44016, 44025>>, <<65296, 65305>>, <<66720, 66729>>, <<68160, 68163>>, <<68912, 68921>>,
    <<69216, 69224>>, <<69714, 69722>>, <<69734, 69743>>, <<69872, 69881>>, <<69942, 69951>>, <<70096, 70105>>,
    <<70384, 70393>>, <<70736, 70745>>, <<70864, 70873>>, <<71248, 71257>>, <<71360, 71369>>, <<71472, 71481>>,
    <<71904, 71913>>, <<72016, 72025>>, <<72784, 72793>>, <<73040, 73049>>, <<73120, 73129>>, <<92768, 92777>>,
    <<92864, 92873>>, <<93008, 93017>>, <<120782, 120831>>, <<123200, 123209>>, <<123632, 123641>>, <<125264, 125273>>,
    <<127232, 127242>>, <<130032, 130041>> >>
isword(c) == IF c < 128 THEN c \in 65..90 \/ c \in 97..122 ELSE InRanges(c, AlphaRanges)
isnum(c) == IF c < 128 THEN c \in 48..57 ELSE InRanges(c, DigitRanges)
str_isdigit(s) == s # <<>> /\ \A k \in 1..Len(s) : isnum(s[k])

\* s[a:b]
Slice(s, a, b) == SubSeq(s, a + 1, IF b > Len(s) THEN Len(s) ELSE b)

\* ---- _timelex
\* _split_decimal.split(token), less the empty pieces after the first: the
\* pieces of token between its points and commas, and those separators
RECURSIVE SplitDecimal(_, _, _)
SplitDecimal(token, piece, first) ==
    IF token = <<>> THEN (IF first \/ piece # <<>> THEN <<piece>> ELSE <<>>)
    ELSE IF token[1] \in {44, 46}
    THEN (IF first \/ piece # <<>> THEN <<piece>> ELSE <<>>)
         \o << <<token[1]>> >> \o SplitDecimal(Tail(token), <<>>, FALSE)
    ELSE SplitDecimal(Tail(token), Append(piece, token[1]), first)
\* token.replace(a, b)
RECURSIVE Replace(_, _, _)
Replace(s, a, b) ==
    IF s = <<>> THEN <<>> ELSE <<IF s[1] = a THEN b ELSE s[1]>> \o Replace(Tail(s), a, b)

\* the end of get_token: the token and what it leaves on the token stack
TokensOf(state, token, seenletters) ==
    IF state \in {"a.", "0."}
       /\ (seenletters \/ Count(token, 46) > 1 \/ token[Len(token)] \in {44, 46})
    THEN SplitDecimal(token, <<>>, TRUE)
    ELSE IF state = "0." /\ Count(token, 46) = 0 THEN <<Replace(token, 44, 46)>>
    ELSE <<token>>

\* the while loop of get_token after the first character: j is the place of
\* the next character; the value is <<j, state, token, seenletters>> at the
\* end of the token
RECURSIVE Scan(_, _, _, _, _)
ScanChar(s, j, state, token, seenletters, nextchar) ==
    CASE state = "a" ->
            IF isword(nextchar) THEN Scan(s, j + 1, "a", Append(token, nextchar), TRUE)
            ELSE IF nextchar = 46 THEN Scan(s, j + 1, "a.", Append(token, nextchar), TRUE)
            ELSE <<j, state, token, TRUE>>
      [] state = "0" ->
            IF isnum(nextchar) THEN Scan(s, j + 1, "0", Append(token, nextchar), seenletters)
            ELSE IF nextchar = 46 \/ (nextchar = 44 /\ Len(token) >= 2)
            THEN Scan(s, j + 1, "0.", Append(token, nextchar), seenletters)
            ELSE <<j, state, token, seenletters>>
      [] state = "a." ->
            IF nextchar = 46 \/ isword(nextchar)
            THEN Scan(s, j + 1, "a.", Append(token, nextchar), TRUE)
            ELSE IF isnum(nextchar) /\ token[Len(token)] = 46
            THEN Scan(s, j + 1, "0.", Append(token, nextchar), TRUE)
            ELSE <<j, state, token, TRUE>>
      [] OTHER ->
            IF nextchar = 46 \/ isnum(nextchar)
            THEN Scan(s, j + 1, "0.", Append(token, nextchar), seenletters)
            ELSE IF isword(nextchar) /\ token[Len(token)] = 46
            THEN Scan(s, j + 1, "a.", Append(token, nextchar), seenletters)
            ELSE <<j, state, token, seenletters>>
Scan(s, j, state, token, seenletters) ==
    IF j >= Len(s) THEN <<j, state, token, seenletters>>
    ELSE ScanChar(s, j, state, token, seenletters, s[j + 1])

\* get_token over and over, from the character at place j
RECURSIVE LexFrom(_, _)
LexScanned(s, scanned) == TokensOf(scanned[2], scanned[3], scanned[4]) \o LexFrom(s, scanned[1])
LexFrom(s, j) ==
    IF j >= Len(s) THEN <<>>
    ELSE IF isword(s[j + 1]) THEN LexScanned(s, Scan(s, j + 1, "a", <<s[j + 1]>>, FALSE))
    ELSE IF isnum(s[j + 1]) THEN LexScanned(s, Scan(s, j + 1, "0", <<s[j + 1]>>, FALSE))
    ELSE IF isspace(s[j + 1]) THEN << <<32>> >> \o LexFrom(s, j + 1)
    ELSE << <<s[j + 1]>> >> \o LexFrom(s, j + 1)

\* _timelex.split(timestr): NUL characters are skipped on reading
NotNul(c) == c # 0
timelex_split(timestr) == LexFrom(SelectSeq(timestr, NotNul), 0)

\* ---- parserinfo: the word lists, in lower case as _convert keeps them
\* " ", ".", ",", ";", "-", "/", "'", at, on, and, ad, m, t, of, st, nd, rd, th
JUMP == <<<<32>>, <<46>>, <<44>>, <<59>>, <<45>>, <<47>>, <<39>>, <<97, 116>>, <<111, 110>>, <<97, 110, 100>>, <<97, 100>>, <<109>>, <<116>>, <<111, 102>>, <<115, 116>>, <<110, 100>>, <<114, 100>>, <<116, 104>>>>
\* mon/monday ... sun/sunday
WEEKDAYS == <<
    <<<<109, 111, 110>>, <<109, 111, 110, 100, 97, 121>>>>,
    <<<<116, 117, 101>>, <<116, 117, 101, 115, 100, 97, 121>>>>,
    <<<<119, 101, 100>>, <<119, 101, 100, 110, 101, 115, 100, 97, 121>>>>,
    <<<<116, 104, 117>>, <<116, 104, 117, 114, 115, 100, 97, 121>>>>,
    <<<<102, 114, 105>>, <<102, 114, 105, 100, 97, 121>>>>,
    <<<<115, 97, 116>>, <<115, 97, 116, 117, 114, 100, 97, 121>>>>,
    <<<<115, 117, 110>>, <<115, 117, 110, 100, 97, 121>>>> >>
\* jan/january ... sep/sept/september ... dec/december
MONTHS == <<
    <<<<106, 97, 110>>, <<106, 97, 110, 117, 97, 114, 121>>>>,
    <<<<102, 101, 98>>, <<102, 101, 98, 114, 117, 97, 114, 121>>>>,
    <<<<109, 97, 114>>, <<109, 97, 114, 99, 104>>>>,
    <<<<97, 112, 114>>, <<97, 112, 114, 105, 108>>>>,
    <<<<109, 97, 121>>, <<109, 97, 121>>>>,
    <<<<106, 117, 110>>, <<106, 117, 110, 101>>>>,
    <<<<106, 117, 108>>, <<106, 117, 108, 121>>>>,
    <<<<97, 117, 103>>, <<97, 117, 103, 117, 115, 116>>>>,
    <<<<115, 101, 112>>, <<115, 101, 112, 116>>, <<115, 101, 112, 116, 101, 109, 98, 101, 114>>>>,
    <<<<111, 99, 116>>, <<111, 99, 116, 111, 98, 101, 114>>>>,
    <<<<110, 111, 118>>, <<110, 111, 118, 101, 109, 98, 101, 114>>>>,
    <<<<100, 101, 99>>, <<100, 101, 99, 101, 109, 98, 101, 114>>>> >>
\* h/hour/hours, m/minute/minutes, s/second/seconds
HMS == <<
    <<<<104>>, <<104, 111, 117, 114>>, <<104, 111, 117, 114, 115>>>>,
    <<<<109>>, <<109, 105, 110, 117, 116, 101>>, <<109, 105, 110, 117, 116, 101, 115>>>>,
    <<<<115>>, <<115, 101, 99, 111, 110, 100>>, <<115, 101, 99, 111, 110, 100, 115>>>> >>
\* am/a, pm/p
AMPM == <<
    <<<<97, 109>>, <<97>>>>,
    <<<<112, 109>>, <<112>>>> >>
\* UTC, GMT, Z, z
UTCZONE == <<<<85, 84, 67>>, <<71, 77, 84>>, <<90>>, <<122>>>>

\* the dict lookup of a lowered word: the row of the word from 0, or None
Lookup(table, word) ==
    IF \E r \in 1..Len(table) : \E k \in 1..Len(table[r]) : table[r][k] = word
    THEN <<(CHOOSE r \in 1..Len(table) : \E k \in 1..Len(table[r]) : table[r][k] = word) - 1>>
    ELSE <<>>
jump(name) == LowerText(name) \in {JUMP[k] : k \in 1..Len(JUMP)}
weekday(name) == Lookup(WEEKDAYS, LowerText(name))
\* the months count from 1
month(name) == Lookup(<< <<>> >> \o MONTHS, LowerText(name))
hms(name) == Lookup(HMS, LowerText(name))
ampm(name) == Lookup(AMPM, LowerText(name))
pertain(name) == LowerText(name) = <<111, 102>>
utczone(name) == \E k \in 1..Len(UTCZONE) : LowerText(UTCZONE[k]) = LowerText(name)
\* tzoffset looks the name up without lowering it
tzoffset(name) ==
    IF \E k \in 1..Len(UTCZONE) : LowerText(UTCZONE[k]) = name THEN <<0>> ELSE <<>>

\* a year under 100 becomes the one within 50 years of info_year
convertyear(info_year, year, century_specified) ==
    IF year < 100 /\ ~century_specified
    THEN IF year + (info_year \div 100) * 100 >= info_year + 50
         THEN year + (info_year \div 100) * 100 - 100
         ELSE IF year + (info_year \div 100) * 100 < info_year - 50
         THEN year + (info_year \div 100) * 100 + 100
         ELSE year + (info_year \div 100) * 100
    ELSE year

\* ---- the Decimal of a token
DecWhole(token) == SubSeq(token, 1, PointIndex(token) - 1)
DecFrac(token) == SubSeq(token, PointIndex(token) + 1, Len(token))
\* _to_decimal(token) succeeds: digits with at most one point among them
_to_decimal(token) ==
    DecWhole(token) \o DecFrac(token) # <<>> /\ AllDigits(DecWhole(token) \o DecFrac(token))
\* int(value)
DecInt(token) == DigitsVal(DecWhole(token))
\* decimal.getcontext().prec: the digits a result of Decimal arithmetic keeps
prec == 28
\* value % 1 raises decimal.InvalidOperation: the whole part of the value has
\* more digits than the context keeps
ModFails(token) == Len(DropLeadingZeros(DecWhole(token))) > prec
\* value % 1 is not zero
FracNonZero(token) == \E k \in 1..Len(DecFrac(token)) : DigitVal(DecFrac(token)[k]) # 0
\* the number of digits of x
RECURSIVE NumDigits(_)
NumDigits(x) == IF x < 10 THEN 1 ELSE 1 + NumDigits(x \div 10)
\* x brought to the digits the context keeps: the digits past them are
\* rounded away, a half to the even neighbour, and stand as zeros
Rounded(x) ==
    IF NumDigits(x) <= prec THEN x
    ELSE LET unit == Pow10(NumDigits(x) - prec)
         IN (x \div unit + (IF \/ 2 * (x % unit) > unit
                               \/ (2 * (x % unit) = unit /\ (x \div unit) % 2 = 1)
                            THEN 1 ELSE 0)) * unit
\* int(60 * (value % 1)): the remainder and the product are each rounded
SixtyFrac(token) ==
    Rounded(60 * Rounded(DigitsVal(DropLeadingZeros(DecFrac(token)))))
    \div Pow10(Len(DecFrac(token)))
\* value > n
DecGt(token, n) == DecInt(token) > n \/ (DecInt(token) = n /\ FracNonZero(token))

\* calendar.monthrange(year, month)[1]
MonthDays(year, mon) ==
    IF mon = 2 THEN (IF year % 4 = 0 /\ (year % 100 # 0 \/ year % 400 = 0) THEN 29 ELSE 28)
    ELSE IF mon \in {4, 6, 9, 11} THEN 30
    ELSE 31

\* ---- the state of parser._parse: the tokens l, the index i, the _ymd
\* list with its labels, and the attributes of the _result
NewResult(l, info_year) ==
    [l |-> l, i |-> 0, err |-> FALSE, exc |-> "ValueError", info_year |-> info_year,
     ymd |-> <<>>, century_specified |-> FALSE,
     dstridx |-> <<>>, mstridx |-> <<>>, ystridx |-> <<>>,
     weekday |-> <<>>, hour |-> <<>>, minute |-> <<>>, second |-> <<>>,
     microsecond |-> <<>>, tzname |-> <<>>, tzoffset |-> <<>>, ampm |-> <<>>]
\* ValueError or IndexError inside _parse, which parse turns into a
\* ParserError; st.exc names what is raised, and a decimal.InvalidOperation
\* leaves _parse and parse as it is
Fail(st) == [st EXCEPT !.err = TRUE]
At(st, i) == [st EXCEPT !.i = i]
Tok(st, k) == st.l[k + 1]

\* _ymd.append of the number v under a label ("" is none); century tells
\* that the value gives its century
YmdAppend(st, v, century, label) ==
    IF st.err THEN st
    ELSE IF \/ label = "M" /\ st.mstridx # <<>>
            \/ label = "D" /\ st.dstridx # <<>>
            \/ label = "Y" /\ st.ystridx # <<>>
    THEN Fail(st)
    ELSE [st EXCEPT !.ymd = Append(@, v),
                    !.century_specified = @ \/ century,
                    !.mstridx = IF label = "M" THEN <<Len(st.ymd)>> ELSE @,
                    !.dstridx = IF label = "D" THEN <<Len(st.ymd)>> ELSE @,
                    !.ystridx = IF label = "Y" THEN <<Len(st.ymd)>> ELSE @]
\* ymd.append(value) with the Decimal of a token
AppendDecimal(st, token) ==
    YmdAppend(st, DecInt(token), DecGt(token, 100), IF DecGt(token, 100) THEN "Y" ELSE "")
\* ymd.append(s, label) with a str
AppendStr(st, s, label) ==
    IF st.err THEN st
    ELSE IF Raised(PyInt(s)) THEN Fail(st)
    ELSE YmdAppend(st, PyInt(s).value, str_isdigit(s) /\ Len(s) > 2,
                   IF str_isdigit(s) /\ Len(s) > 2 THEN "Y" ELSE label)

could_be_day(st, token) ==
    IF st.dstridx # <<>> THEN FALSE
    ELSE IF st.mstridx = <<>> THEN DecInt(token) >= 1 /\ ~DecGt(token, 31)
    ELSE IF st.ystridx = <<>>
    THEN DecInt(token) >= 1 /\ ~DecGt(token, MonthDays(2000, st.ymd[st.mstridx[1] + 1]))
    ELSE DecInt(token) >= 1
         /\ ~DecGt(token, MonthDays(st.ymd[st.ystridx[1] + 1], st.ymd[st.mstridx[1] + 1]))

\* ---- the attributes of the result
\* res.<field> = int(s)
SetInt(st, field, s) ==
    IF st.err THEN st
    ELSE IF Raised(PyInt(s)) THEN Fail(st)
    ELSE [st EXCEPT ![field] = <<PyInt(s).value>>]

\* res.second, res.microsecond = self._parsems(s)
_parsems(st, s) ==
    IF st.err THEN st
    ELSE IF Count(s, 46) = 0 THEN SetInt(SetInt(st, "second", s), "microsecond", <<48>>)
    ELSE IF Count(s, 46) > 1 THEN Fail(st)
    ELSE SetInt(SetInt(st, "second", DecWhole(s)), "microsecond",
                SubSeq(DecFrac(s) \o <<48, 48, 48, 48, 48, 48>>, 1, 6))

\* (res.minute, res.second) = self._parse_min_sec(value)
_parse_min_sec(st, token) ==
    IF st.err THEN st
    ELSE IF ModFails(token) THEN [st EXCEPT !.err = TRUE, !.exc = "InvalidOperation"]
    ELSE [st EXCEPT !.minute = <<DecInt(token)>>,
                    !.second = IF FracNonZero(token) THEN <<SixtyFrac(token)>> ELSE <<>>]

_adjust_ampm(hour, flag) ==
    IF hour < 12 /\ flag = 1 THEN hour + 12
    ELSE IF hour = 12 /\ flag = 0 THEN 0
    ELSE hour

\* allow_jump is True at the only call
_find_hms_idx(st, pos) ==
    IF pos + 1 < Len(st.l) /\ hms(Tok(st, pos + 1)) # <<>> THEN <<pos + 1>>
    ELSE IF pos + 2 < Len(st.l) /\ Tok(st, pos + 1) = <<32>> /\ hms(Tok(st, pos + 2)) # <<>>
    THEN <<pos + 2>>
    ELSE IF pos > 0 /\ hms(Tok(st, pos - 1)) # <<>> THEN <<pos - 1>>
    ELSE IF 1 < pos /\ pos = Len(st.l) - 1 /\ Tok(st, pos - 1) = <<32>>
            /\ hms(Tok(st, pos - 2)) # <<>>
    THEN <<pos - 2>>
    ELSE <<>>

_assign_hms(st, token, unit) ==
    CASE unit = 0 ->
            IF ModFails(token) THEN [st EXCEPT !.err = TRUE, !.exc = "InvalidOperation"]
            ELSE IF FracNonZero(token)
            THEN [st EXCEPT !.hour = <<DecInt(token)>>, !.minute = <<SixtyFrac(token)>>]
            ELSE [st EXCEPT !.hour = <<DecInt(token)>>]
      [] unit = 1 -> _parse_min_sec(st, token)
      [] unit = 2 -> _parsems(st, token)
      [] OTHER -> st

\* ---- _parse_numeric_token and its longer branches
\* YYMMDD or HHMMSS[.ss]
SixDigits(st, token) ==
    IF st.ymd = <<>> /\ Count(token, 46) = 0
    THEN AppendStr(AppendStr(AppendStr(st, Slice(token, 0, 2), ""), Slice(token, 2, 4), ""),
                   Slice(token, 4, Len(token)), "")
    ELSE _parsems(SetInt(SetInt(st, "hour", Slice(token, 0, 2)), "minute", Slice(token, 2, 4)),
                  Slice(token, 4, Len(token)))

\* YYYYMMDD[hhmm[ss]], with the state after the date
EightDigits(dated, token) ==
    IF Len(token) > 12
    THEN SetInt(SetInt(SetInt(dated, "hour", Slice(token, 8, 10)),
                       "minute", Slice(token, 10, 12)),
                "second", Slice(token, 12, Len(token)))
    ELSE IF Len(token) > 8
    THEN SetInt(SetInt(dated, "hour", Slice(token, 8, 10)), "minute", Slice(token, 10, 12))
    ELSE dated

\* HH[ ]h or MM[ ]m or SS[.ss][ ]s: _parse_hms and _assign_hms
HmsLabelled(st, pos, token, hms_pos) ==
    IF hms_pos > pos THEN At(_assign_hms(st, token, hms(Tok(st, hms_pos))[1]), hms_pos)
    ELSE _assign_hms(st, token, hms(Tok(st, hms_pos))[1] + 1)

\* HH:MM[:SS[.ss]], with the state after the hour and the minute
ClockTime(st, timed, pos) ==
    IF ~_to_decimal(Tok(st, pos + 2)) THEN Fail(st)
    ELSE IF pos + 4 < Len(st.l) /\ Tok(st, pos + 3) = <<58>>
    THEN At(_parsems(timed, Tok(st, pos + 4)), pos + 4)
    ELSE At(timed, pos + 2)

\* 01-01[-01] and 01-Jan[-01], with the state after the first and after
\* the second number
SeparatedThird(st, two, pos) ==
    IF pos + 3 < Len(st.l) /\ Tok(st, pos + 3) = Tok(st, pos + 1)
    THEN IF pos + 4 >= Len(st.l) THEN Fail(st)
         ELSE IF month(Tok(st, pos + 4)) # <<>>
         THEN At(YmdAppend(two, month(Tok(st, pos + 4))[1], FALSE, "M"), pos + 4)
         ELSE At(AppendStr(two, Tok(st, pos + 4), ""), pos + 4)
    ELSE At(two, pos + 2)
SeparatedSecond(st, one, pos) ==
    IF pos + 2 < Len(st.l) /\ ~jump(Tok(st, pos + 2))
    THEN IF str_isdigit(Tok(st, pos + 2))
         THEN SeparatedThird(st, AppendStr(one, Tok(st, pos + 2), ""), pos)
         ELSE IF month(Tok(st, pos + 2)) # <<>>
         THEN SeparatedThird(st, YmdAppend(one, month(Tok(st, pos + 2))[1], FALSE, "M"), pos)
         ELSE Fail(st)
    ELSE At(one, pos + 1)

_parse_numeric_token(st, pos, token) ==
    IF ~_to_decimal(token) THEN Fail(st)
    ELSE IF Len(st.ymd) = 3 /\ Len(token) \in {2, 4} /\ st.hour = <<>>
            /\ (pos + 1 >= Len(st.l)
                \/ (Tok(st, pos + 1) # <<58>> /\ hms(Tok(st, pos + 1)) = <<>>))
    THEN \* 19990101T23[59]
         IF Len(token) = 4
         THEN SetInt(SetInt(st, "hour", Slice(token, 0, 2)), "minute", Slice(token, 2, 4))
         ELSE SetInt(st, "hour", Slice(token, 0, 2))
    ELSE IF Len(token) = 6 \/ (Len(token) > 6 /\ PointIndex(token) = 7)
    THEN SixDigits(st, token)
    ELSE IF Len(token) \in {8, 12, 14}
    THEN EightDigits(AppendStr(AppendStr(AppendStr(st, Slice(token, 0, 4), "Y"),
                                         Slice(token, 4, 6), ""),
                               Slice(token, 6, 8), ""), token)
    ELSE IF _find_hms_idx(st, pos) # <<>> THEN HmsLabelled(st, pos, token, _find_hms_idx(st, pos)[1])
    ELSE IF pos + 2 < Len(st.l) /\ Tok(st, pos + 1) = <<58>>
    THEN ClockTime(st, _parse_min_sec([st EXCEPT !.hour = <<DecInt(token)>>], Tok(st, pos + 2)), pos)
    ELSE IF pos + 1 < Len(st.l) /\ Tok(st, pos + 1) \in {<<45>>, <<47>>, <<46>>}
    THEN SeparatedSecond(st, AppendStr(st, token, ""), pos)
    ELSE IF pos + 1 >= Len(st.l) \/ jump(Tok(st, pos + 1))
    THEN \* "12 am", or a year, a month or a day
         IF pos + 2 < Len(st.l) /\ ampm(Tok(st, pos + 2)) # <<>>
         THEN At([st EXCEPT !.hour = <<_adjust_ampm(DecInt(token), ampm(Tok(st, pos + 2))[1])>>],
                 pos + 2)
         ELSE At(AppendDecimal(st, token), pos + 1)
    ELSE IF ampm(Tok(st, pos + 1)) # <<>> /\ DecInt(token) < 24
    THEN \* 12am
         At([st EXCEPT !.hour = <<_adjust_ampm(DecInt(token), ampm(Tok(st, pos + 1))[1])>>],
            pos + 1)
    ELSE IF could_be_day(st, token) THEN AppendDecimal(st, token)
    ELSE Fail(st)

\* ---- the other branches of the loop of _parse
\* Jan of 01: ymd.append(str(convertyear(int(l[i + 4]))), 'Y')
PertainYear(st, v) ==
    IF st.err THEN st
    ELSE IF Raised(v) THEN Fail(st)
    ELSE YmdAppend(st, convertyear(st.info_year, v.value, FALSE),
                   convertyear(st.info_year, v.value, FALSE) >= 100, "Y")
\* what follows the name of a month, with the state after the month
MonthFollowed(st, named, i) ==
    IF i + 1 >= Len(st.l) THEN named
    ELSE IF Tok(st, i + 1) \in {<<45>>, <<47>>}
    THEN \* Jan-01[-99]
         IF i + 2 >= Len(st.l) THEN Fail(st)
         ELSE IF i + 3 < Len(st.l) /\ Tok(st, i + 3) = Tok(st, i + 1)
         THEN IF i + 4 >= Len(st.l) THEN Fail(st)
              ELSE At(AppendStr(AppendStr(named, Tok(st, i + 2), ""), Tok(st, i + 4), ""), i + 4)
         ELSE At(AppendStr(named, Tok(st, i + 2), ""), i + 2)
    ELSE IF i + 4 < Len(st.l) /\ Tok(st, i + 1) = <<32>> /\ Tok(st, i + 3) = <<32>>
            /\ pertain(Tok(st, i + 2))
    THEN IF str_isdigit(Tok(st, i + 4))
         THEN At(PertainYear(named, PyInt(Tok(st, i + 4))), i + 4)
         ELSE At(named, i + 4)
    ELSE named

\* _ampm_valid raises when not fuzzy
AmpmToken(st, flag) ==
    IF st.hour = <<>> THEN Fail(st)
    ELSE IF st.hour[1] > 12 THEN Fail(st)
    ELSE [st EXCEPT !.hour = <<_adjust_ampm(st.hour[1], flag)>>, !.ampm = <<flag>>]

_could_be_tzname(hour, tzname, tz_offset, token) ==
    /\ hour # <<>>
    /\ tzname = <<>>
    /\ tz_offset = <<>>
    /\ Len(token) <= 5
    /\ \/ \A k \in 1..Len(token) : token[k] \in 65..90
       \/ \E k \in 1..Len(UTCZONE) : UTCZONE[k] = token

\* "GMT+3" is three hours behind: the sign that follows a name is turned
TznameToken(st, token, i) ==
    IF i + 1 < Len(st.l) /\ Tok(st, i + 1) \in {<<43>>, <<45>>}
    THEN [st EXCEPT !.l[i + 2] = IF @ = <<43>> THEN <<45>> ELSE <<43>>,
                    !.tzoffset = <<>>,
                    !.tzname = IF utczone(token) THEN <<>> ELSE <<token>>]
    ELSE [st EXCEPT !.tzname = <<token>>, !.tzoffset = tzoffset(token)]

\* -0300 (BRST): i is the place before the last token of the offset
OffsetName(st, i) ==
    IF i + 5 < Len(st.l) /\ jump(Tok(st, i + 2)) /\ Tok(st, i + 3) = <<40>>
       /\ Tok(st, i + 5) = <<41>> /\ 3 <= Len(Tok(st, i + 4))
       /\ _could_be_tzname(st.hour, st.tzname, <<>>, Tok(st, i + 4))
    THEN At([st EXCEPT !.tzname = <<Tok(st, i + 4)>>], i + 5)
    ELSE At(st, i + 1)
OffsetOf(st, signal, hour_offset, min_offset, i) ==
    IF Raised(hour_offset) \/ Raised(min_offset) THEN Fail(st)
    ELSE OffsetName([st EXCEPT !.tzoffset =
                        <<signal * (hour_offset.value * 3600 + min_offset.value * 60)>>], i)
\* +0300, +03:00 or +03
SignToken(st, signal, i) ==
    IF i + 1 >= Len(st.l) THEN Fail(st)
    ELSE IF Len(Tok(st, i + 1)) = 4
    THEN OffsetOf(st, signal, PyInt(Slice(Tok(st, i + 1), 0, 2)),
                  PyInt(Slice(Tok(st, i + 1), 2, 4)), i)
    ELSE IF i + 2 < Len(st.l) /\ Tok(st, i + 2) = <<58>>
    THEN IF i + 3 >= Len(st.l) THEN Fail(st)
         ELSE OffsetOf(st, signal, PyInt(Tok(st, i + 1)), PyInt(Tok(st, i + 3)), i + 2)
    ELSE IF Len(Tok(st, i + 1)) <= 2
    THEN OffsetOf(st, signal, PyInt(Slice(Tok(st, i + 1), 0, 2)), Return(0), i)
    ELSE Fail(st)

\* one turn of the while loop of _parse, but for its last i += 1
ParseToken(st, token) ==
    IF ~Raised(PyFloat(token)) THEN _parse_numeric_token(st, st.i, token)
    ELSE IF weekday(token) # <<>> THEN [st EXCEPT !.weekday = weekday(token)]
    ELSE IF month(token) # <<>>
    THEN MonthFollowed(st, YmdAppend(st, month(token)[1], FALSE, "M"), st.i)
    ELSE IF ampm(token) # <<>> THEN AmpmToken(st, ampm(token)[1])
    ELSE IF _could_be_tzname(st.hour, st.tzname, st.tzoffset, token)
    THEN TznameToken(st, token, st.i)
    ELSE IF st.hour # <<>> /\ token \in {<<43>>, <<45>>}
    THEN SignToken(st, IF token = <<43>> THEN 1 ELSE 0 - 1, st.i)
    ELSE IF ~jump(token) THEN Fail(st)
    ELSE st
RECURSIVE ParseTokens(_)
ParseTokens(st) ==
    IF st.err \/ st.i >= Len(st.l) THEN st
    ELSE ParseTokens([ParseToken(st, Tok(st, st.i)) EXCEPT !.i = @ + 1])

\* ---- _ymd.resolve_ymd: year, month and day, each set or not, or an error
Ymd(year, mon, day) == [err |-> FALSE, year |-> year, month |-> mon, day |-> day]
Labels(st) == Len(st.ystridx) + Len(st.mstridx) + Len(st.dstridx)
\* the place no label names, when two of three are named
Missing(st) == <<CHOOSE k \in 0..2 : <<k>> \notin {st.ystridx, st.mstridx, st.dstridx}>>
At0(y, place) == IF place = <<>> THEN <<>> ELSE <<y[place[1] + 1]>>
_resolve_from_stridxs(st, y) ==
    IF Len(y) = 3 /\ Labels(st) = 2
    THEN IF st.ystridx = <<>> THEN Ymd(At0(y, Missing(st)), At0(y, st.mstridx), At0(y, st.dstridx))
         ELSE IF st.mstridx = <<>>
         THEN Ymd(At0(y, st.ystridx), At0(y, Missing(st)), At0(y, st.dstridx))
         ELSE Ymd(At0(y, st.ystridx), At0(y, st.mstridx), At0(y, Missing(st)))
    ELSE Ymd(At0(y, st.ystridx), At0(y, st.mstridx), At0(y, st.dstridx))
\* self[mstridx - 1]: the index -1 is the last place
OtherThan(y, mstridx) == IF mstridx = 0 THEN y[Len(y)] ELSE y[mstridx]
resolve_ymd(st, y) ==
    IF (Len(y) = Labels(st) /\ Len(y) > 0) \/ (Len(y) = 3 /\ Labels(st) = 2)
    THEN _resolve_from_stridxs(st, y)
    ELSE IF Len(y) > 3 THEN [err |-> TRUE]
    ELSE IF Len(y) = 1 \/ (st.mstridx # <<>> /\ Len(y) = 2)
    THEN IF st.mstridx # <<>>
         THEN IF Len(y) > 1
              THEN IF OtherThan(y, st.mstridx[1]) > 31
                   THEN Ymd(<<OtherThan(y, st.mstridx[1])>>, <<y[st.mstridx[1] + 1]>>, <<>>)
                   ELSE Ymd(<<>>, <<y[st.mstridx[1] + 1]>>, <<OtherThan(y, st.mstridx[1])>>)
              ELSE Ymd(<<>>, <<y[st.mstridx[1] + 1]>>, <<>>)
         ELSE IF y[1] > 31 THEN Ymd(<<y[1]>>, <<>>, <<>>) ELSE Ymd(<<>>, <<>>, <<y[1]>>)
    ELSE IF Len(y) = 2
    THEN IF y[1] > 31 THEN Ymd(<<y[1]>>, <<y[2]>>, <<>>)
         ELSE IF y[2] > 31 THEN Ymd(<<y[2]>>, <<y[1]>>, <<>>)
         ELSE Ymd(<<>>, <<y[1]>>, <<y[2]>>)
    ELSE IF Len(y) = 3
    THEN IF st.mstridx = <<0>>
         THEN IF y[2] > 31 THEN Ymd(<<y[2]>>, <<y[1]>>, <<y[3]>>)
              ELSE Ymd(<<y[3]>>, <<y[1]>>, <<y[2]>>)
         ELSE IF st.mstridx = <<1>>
         THEN IF y[1] > 31 THEN Ymd(<<y[1]>>, <<y[2]>>, <<y[3]>>)
              ELSE Ymd(<<y[3]>>, <<y[2]>>, <<y[1]>>)
         ELSE IF st.mstridx = <<2>>
         THEN IF y[2] > 31 THEN Ymd(<<y[2]>>, <<y[3]>>, <<y[1]>>)
              ELSE Ymd(<<y[1]>>, <<y[3]>>, <<y[2]>>)
         ELSE IF y[1] > 31 \/ st.ystridx = <<0>> THEN Ymd(<<y[1]>>, <<y[2]>>, <<y[3]>>)
         ELSE IF y[1] > 12 THEN Ymd(<<y[3]>>, <<y[2]>>, <<y[1]>>)
         ELSE Ymd(<<y[3]>>, <<y[1]>>, <<y[2]>>)
    ELSE Ymd(<<>>, <<>>, <<>>)

\* ---- parserinfo.validate: the offset of a UTC name is 0
ValidOffset(st) ==
    IF (st.tzoffset = <<0>> /\ st.tzname = <<>>) \/ st.tzname \in {<< <<90>> >>, << <<122>> >>}
    THEN <<0>>
    ELSE IF st.tzoffset # <<0>> /\ st.tzname # <<>> /\ utczone(st.tzname[1]) THEN <<0>>
    ELSE st.tzoffset

\* ---- _build_naive and _build_tzaware
Opt(o, default) == IF o = <<>> THEN default ELSE o[1]

\* the datetime of the result: tzinfo is tz.UTC, tz.tzoffset(name, seconds)
\* or none.  A zone name the host gives its own zone stands for that zone:
\* the names of UTC are taken to name a zone at offset 0 there, and no other
\* name to be the host's.
Datetime(st, y, m, d) ==
    Return([year |-> y, month |-> m, day |-> d,
            hour |-> Opt(st.hour, 0), minute |-> Opt(st.minute, 0),
            second |-> Opt(st.second, 0), microsecond |-> Opt(st.microsecond, 0),
            tzinfo |-> IF ValidOffset(st) = <<>> THEN None
                       ELSE [utcoffset |-> ValidOffset(st)[1]]])

\* the days from 1970-01-01 to a date
DaysOfEra(y, m, d) ==
    (y \div 400) * 146097 + (y % 400) * 365 + (y % 400) \div 4 - (y % 400) \div 100
    + (153 * (IF m > 2 THEN m - 3 ELSE m + 9) + 2) \div 5 + d - 1
DaysFromCivil(y, m, d) == DaysOfEra(IF m <= 2 THEN y - 1 ELSE y, m, d) - 719468

\* naive + relativedelta(weekday=res.weekday): k days on, k under a week
AddDays(st, y, m, d, k) ==
    IF d + k <= MonthDays(y, m) THEN Datetime(st, y, m, d + k)
    ELSE IF m < 12 THEN Datetime(st, y, m + 1, d + k - MonthDays(y, m))
    ELSE IF y < 9999 THEN Datetime(st, y + 1, 1, d + k - 31)
    ELSE Raise("OverflowError")

\* default.replace(**repl), where datetime first takes each field as a C
\* int, an OverflowError when one does not fit, then checks the ranges, and
\* the move to the weekday when the text names one and no day;
\* datetime.weekday() is (days + 3) % 7, Monday being 0
Replaced(st, y, m, d, day) ==
    IF \E field \in {y, m, d, Opt(st.hour, 0), Opt(st.minute, 0), Opt(st.second, 0),
                     Opt(st.microsecond, 0)} : field > 2147483647
    THEN Raise("OverflowError")
    ELSE IF y \in 1..9999 /\ m \in 1..12 /\ d \in 1..MonthDays(y, m)
       /\ Opt(st.hour, 0) \in 0..23
       /\ Opt(st.minute, 0) \in 0..59 /\ Opt(st.second, 0) \in 0..59
       /\ Opt(st.microsecond, 0) \in 0..999999
    THEN IF st.weekday # <<>> /\ (day = <<>> \/ day[1] = 0)
         THEN AddDays(st, y, m, d, (7 - ((DaysFromCivil(y, m, d) + 3) % 7) + st.weekday[1]) % 7)
         ELSE Datetime(st, y, m, d)
    ELSE Raise("ValueError")

\* the day of the default falls back to the end of the month, which
\* calendar.monthrange tells of a month from 1 to 12 only
_build_naive(st, now, y, m, day) ==
    IF day = <<>> /\ m \notin 1..12 THEN Raise("ValueError")
    ELSE Replaced(st, y, m,
                  IF day # <<>> THEN day[1]
                  ELSE IF now.day > MonthDays(y, m) THEN MonthDays(y, m) ELSE now.day,
                  day)

\* the end of _parse and of parse: validate turns a year without century
Parsed(st, now, ymd) ==
    IF ymd.err THEN Raise("ValueError")
    ELSE IF /\ ymd.year = <<>> /\ ymd.month = <<>> /\ ymd.day = <<>>
            /\ st.weekday = <<>> /\ st.hour = <<>> /\ st.minute = <<>> /\ st.second = <<>>
            /\ st.microsecond = <<>> /\ st.tzname = <<>> /\ st.tzoffset = <<>>
            /\ st.ampm = <<>>
    THEN Raise("ValueError")
    ELSE _build_naive(st, now,
                      IF ymd.year = <<>> THEN now.year
                      ELSE convertyear(now.info_year, ymd.year[1], st.century_specified),
                      Opt(ymd.month, now.month), ymd.day)
Resolved(st, now) ==
    IF st.err THEN Raise(st.exc) ELSE Parsed(st, now, resolve_ymd(st, st.ymd))

\* parser.parse(timestr) when the clock reads now; ParserError is a ValueError
DateutilParse(timestr, now) ==
    Resolved(ParseTokens(NewResult(timelex_split(timestr), now.info_year)), now)

(***************************************************************************)
(* _construct_time                                                         *)
(***************************************************************************)
\* dateutil.parser.parse('{} {} GMT'.format(date, start_time))
TimeOf(date, start_time, now) ==
    IF Raised(date) THEN date
    ELSE IF Raised(start_time) THEN start_time
    ELSE DateutilParse(date.value \o <<32>> \o start_time.value \o <<32, 71, 77, 84>>, now)

_construct_time(time_element) ==
    TimeOf(GetItem(time_element, "Dt"), GetItem(time_element, "stTme"), clock)

(***************************************************************************)
(* _parse_single_match                                                     *)
(***************************************************************************)
base_keys == << <<"datapath", "datapath">>,
                <<"id", "id">>,
                <<"inngCnt", "innings_count">>,
                <<"grnd", "ground">>,
                <<"mchDesc", "description">>,
                <<"vcity", "city">>,
                <<"vcountry", "country">>,
                <<"type", "format">>,
                <<"mnum", "match_num">> >>

state_keys == << <<"TW", "toss_won">>,
                 <<"decisn", "decision">>,
                 <<"mchState", "state">>,
                 <<"status", "result_text">> >>

\* data.update(zip(['team_one', 'team_two'], teams)) when teams is truthy
WithTeams(d, teams) ==
    IF IsNone(teams) \/ Len(teams) = 0 THEN d
    ELSE IF Len(teams) = 1 THEN SetItem(d, "team_one", teams[1])
    ELSE SetItem(SetItem(d, "team_one", teams[1]), "team_two", teams[2])

\* The statements of _parse_single_match in order, each operator taking the
\* outcome of the statement before it: the first exception ends the call.

\* data['score'] = _parse_score(score)
ScoreAttached(timed, scored) ==
    IF Raised(scored) THEN scored
    ELSE Return(SetItem(timed, "score", scored.value))

\* score = match.find('mscr'); if score: ...; return data
AttachScore(timed, score_tag) ==
    IF IsNone(score_tag) THEN Return(timed)
    ELSE ScoreAttached(timed, _parse_score(score_tag))

\* data['time'] = _construct_time(match.find('Tme'))
AttachTime(match_element, stated, time) ==
    IF Raised(stated) THEN stated
    ELSE IF Raised(time) THEN time
    ELSE AttachScore(SetItem(stated.value, "time", time.value), Find(match_element.mscr))

\* teams = _get_teams(match) and the update with them, then
\* data = _transfer_dict_keys(state_keys, match.find('state'), data)
AttachState(match_element, based, teams) ==
    IF Raised(based) THEN based
    ELSE IF Raised(teams) THEN teams
    ELSE AttachTime(match_element,
                    _transfer_dict_keys(state_keys, Find(match_element.state),
                                     WithTeams(based.value, teams.value)),
                    _construct_time(Find(match_element.Tme)))

_parse_single_match(match_element) ==
    AttachState(match_element,
                _transfer_dict_keys(base_keys, match_element, EmptyDict),
                _get_teams(match_element))

(***************************************************************************)
(* Inputs of the single-match parser                                       *)
(***************************************************************************)
Tag(attributes) == [attrs |-> attributes]
\* Dt "12 May 2016", stTme "1400"
GoodTime == Tag([Dt |-> <<49, 50, 32, 77, 97, 121, 32, 50, 48, 49, 54>>, stTme |-> <<49, 52, 48, 48>>])
\* Dt "12 Mai 2016", stTme "1400"
BadTime == Tag([Dt |-> <<49, 50, 32, 77, 97, 105, 32, 50, 48, 49, 54>>, stTme |-> <<49, 52, 48, 48>>])
\* Dt "31 Apr 2016", stTme "1400"
BadDayTime == Tag([Dt |-> <<51, 49, 32, 65, 112, 114, 32, 50, 48, 49, 54>>, stTme |-> <<49, 52, 48, 48>>])
\* Dt "12 may 16", stTme "14:00": the century comes from the clock
ShortTime == Tag([Dt |-> <<49, 50, 32, 109, 97, 121, 32, 49, 54>>, stTme |-> <<49, 52, 58, 48, 48>>])
\* Dt "Apr 2016", stTme "14:00": the day comes from the clock
MonthTime == Tag([Dt |-> <<65, 112, 114, 32, 50, 48, 49, 54>>, stTme |-> <<49, 52, 58, 48, 48>>])
\* Dt "12 May 2016" and no stTme
NoStartTime == Tag([Dt |-> <<49, 50, 32, 77, 97, 121, 32, 50, 48, 49, 54>>])
TimeChoices == {<<>>, <<GoodTime>>, <<BadTime>>, <<BadDayTime>>, <<ShortTime>>, <<MonthTime>>,
                <<NoStartTime>>}

\* dateutil imported and the call made on 29 October 2026; imported in 2069
\* and the call made on 31 January 2070
Clocks == {[info_year |-> 2026, year |-> 2026, month |-> 10, day |-> 29],
           [info_year |-> 2069, year |-> 2070, month |-> 1, day |-> 31]}

TeamIND == Tag([Name |-> "India", id |-> "2"])
TeamAUS == Tag([Name |-> "Australia", id |-> "4"])
TeamNoId == Tag([Name |-> "Kenya"])
TeamChoices == SeqsUpTo({TeamIND, TeamAUS, TeamNoId}, MaxTeams)

StateChoices == {<<>>,
                 <<Tag(EmptyDict)>>,
                 <<Tag([mchState |-> "inprogress"])>>,
                 <<Tag([TW |-> "India", decisn |-> "Batting",
                        mchState |-> "complete", status |-> "India won"])>>}

ScoreTag(children) == [attrs |-> EmptyDict, children |-> children]
OneInnings == ScoreTag(<<Newline, Detail, SideIND, SideAUS, Newline>>)
TwoInnings == ScoreTag(<<Detail, SideIND, SideAUS, Detail, SideAUS, SideIND>>)
ShortScore == ScoreTag(<<Detail, SideIND>>)
BadScore == ScoreTag(<<Detail, SideIND, SideBadRuns>>)
ScoreChoices == {<<>>, <<OneInnings>>, <<TwoInnings>>, <<ShortScore>>, <<BadScore>>}

BaseAttrChoices ==
    {d \in Dicts({"datapath", "inngCnt", "vcity"}, {"123"}) : TRUE}

MatchElement(attributes, teams, state, time, mscr) ==
    [attrs |-> attributes, Tm |-> teams, state |-> state, Tme |-> time, mscr |-> mscr]

MatchElements ==
    {MatchElement(a, t, s, tm, sc) :
        a \in BaseAttrChoices, t \in TeamChoices, s \in StateChoices,
        tm \in TimeChoices, sc \in ScoreChoices}

(***************************************************************************)
(* _join_match_group                                                       *)
(***************************************************************************)
RECURSIVE JoinInto(_, _)

\* faulty variant: the parsed record replaces the dict built so far
JoinParsed_WholeRecord(d, parsed, rest) ==
    IF Raised(parsed) THEN parsed
    ELSE JoinInto(parsed.value, rest)

\* faulty variant: an element that fails to parse is skipped
JoinParsed_SkipFailed(d, parsed, rest) ==
    IF Raised(parsed) THEN JoinInto(d, rest)
    ELSE JoinInto(Update(d, parsed.value), rest)

\* data.update(_parse_single_match(match)), and on with the loop
JoinParsed(d, parsed, rest) ==
    IF Raised(parsed) THEN parsed
    ELSE JoinInto(Update(d, parsed.value), rest)

\* the for loop of _join_match_group, entered with the dict built so far
JoinInto(d, elements) ==
    IF elements = <<>> THEN Return(d)
    ELSE JoinParsed(d, _parse_single_match(elements[1]), Tail(elements))

_join_match_group(elements) == JoinInto(EmptyDict, elements)

(***************************************************************************)
(* _group_by                                                               *)
(* groups is the OrderedDict: a sequence of entries in insertion order,    *)
(* each a key and its list.  An item is a reference to an element of the   *)
(* input sequence, kept as the element's position in it.                   *)
(***************************************************************************)
HasKey(grps, k) == \E g \in 1..Len(grps) : grps[g].key = k

\* faulty variant: a new key is entered before the existing ones
GroupByStep_NewGroupFirst(grps, elements, i) ==
    LET k == GetItem(elements[i], "datapath")
    IN  IF Raised(k) THEN k
        ELSE IF HasKey(grps, k.value)
        THEN Return([g \in 1..Len(grps) |->
                        IF grps[g].key = k.value
                        THEN [key |-> grps[g].key, items |-> Append(grps[g].items, i)]
                        ELSE grps[g]])
        ELSE Return(<<[key |-> k.value, items |-> <<i>>]>> \o grps)

\* faulty variant: the item that creates a group is not appended to it
GroupByStep_DropFirst(grps, elements, i) ==
    LET k == GetItem(elements[i], "datapath")
    IN  IF Raised(k) THEN k
        ELSE IF HasKey(grps, k.value)
        THEN Return([g \in 1..Len(grps) |->
                        IF grps[g].key = k.value
                        THEN [key |-> grps[g].key, items |-> Append(grps[g].items, i)]
                        ELSE grps[g]])
        ELSE Return(Append(grps, [key |-> k.value, items |-> <<>>]))

\* one iteration of the for loop, on the item at position i
GroupByStep(grps, elements, i) ==
    LET k == GetItem(elements[i], "datapath")
    IN  IF Raised(k) THEN k
        ELSE LET entered == IF HasKey(grps, k.value) THEN grps
                            ELSE Append(grps, [key |-> k.value, items |-> <<>>])
             IN  Return([g \in 1..Len(entered) |->
                            IF entered[g].key = k.value
                            THEN [key |-> entered[g].key, items |-> Append(entered[g].items, i)]
                            ELSE entered[g]])

RECURSIVE GroupByFrom(_, _, _)
GroupByFrom(grps, elements, i) ==
    IF i > Len(elements) THEN Return(grps)
    ELSE LET stepped == GroupByStep(grps, elements, i)
         IN  IF Raised(stepped) THEN stepped
             ELSE GroupByFrom(stepped.value, elements, i + 1)

_group_by(elements) == GroupByFrom(<<>>, elements, 1)

\* the elements a group refers to
GroupElements(elements, group) == [j \in 1..Len(group.items) |-> elements[group.items[j]]]

(***************************************************************************)
(* _parse_matches                                                          *)
(***************************************************************************)
RECURSIVE JoinGroupsFrom(_, _, _)
JoinGroupsFrom(joined, elements, grps) ==
    IF grps = <<>> THEN Return(joined)
    ELSE LET record == _join_match_group(GroupElements(elements, grps[1]))
         IN  IF Raised(record) THEN record
             ELSE JoinGroupsFrom(Append(joined, record.value), elements, Tail(grps))

_parse_matches(elements) ==
    LET grouped == _group_by(elements)
    IN  IF Raised(grouped) THEN grouped
        ELSE JoinGroupsFrom(<<>>, elements, grouped.value)

(***************************************************************************)
(* request_matches                                                         *)
(***************************************************************************)
\* faulty variant: every 2xx status counts as success
StatusOk_Any2xx(code) == code \in 200..299
StatusOk(code) == code = 200

\* ValueError('got a {} from cricbuzz'.format(result.status_code))
FetchError(code) == [exc |-> "ValueError", got |-> code]

(***************************************************************************)
(* Inputs of the feed                                                      *)
(***************************************************************************)
StatusCodes == {200, 204, 404, 500}

\* three datapaths, the first with and without a city, and no datapath
FeedAttrs ==
    {[datapath |-> "123"], [datapath |-> "123", vcity |-> "Pune"],
     [datapath |-> "123", vcity |-> "Delhi"], [datapath |-> "456"], [datapath |-> "789"],
     [vcity |-> "Pune"]}

SoundMatches ==
    {MatchElement(a, <<TeamIND, TeamAUS>>, <<Tag(EmptyDict)>>, <<GoodTime>>, <<>>) : a \in FeedAttrs}
NoTimeMatch ==
    MatchElement([datapath |-> "123", vcity |-> "Pune"], <<TeamIND, TeamAUS>>, <<Tag(EmptyDict)>>, <<>>, <<>>)
BadScoreMatch ==
    MatchElement([datapath |-> "456"], <<>>, <<Tag([mchState |-> "inprogress"])>>, <<GoodTime>>, <<BadScore>>)
FeedMatches == SoundMatches \cup {NoTimeMatch, BadScoreMatch}
Feeds == SeqsUpTo(FeedMatches, MaxFeed)

(***************************************************************************)
(* Inputs of the field mapper                                              *)
(***************************************************************************)
MapSourceKeys == {"vcity", "grnd"}
MapOutputKeys == {"city", "ground"}
MapValues == {"Pune", "Lords"}
MapSources == {[attrs |-> d] : d \in Dicts(MapSourceKeys, MapValues)}
MapSinks == Dicts(MapOutputKeys \cup {"id"}, {"Pune", "old"})

InitMap ==
    /\ pc = "map_call"
    /\ key_pairs \in SeqsUpTo(MapSourceKeys \X MapOutputKeys, MaxPairs)
    /\ source \in MapSources
    /\ sink \in MapSinks
    /\ ret = Idle
    /\ score_element = Idle /\ score = Idle
    /\ match = Idle /\ data = Idle
    /\ xml_matches = Idle /\ status_code = Idle /\ idx = Idle
    /\ groups = Idle /\ matches = Idle /\ exc = Idle
    /\ clock = Idle

\* the call writes into the dict it is given and returns that dict; a raise
\* comes from source[k1] of the first pair, before any write
CallTransferDictKeys ==
    /\ pc = "map_call"
    /\ ret' = _transfer_dict_keys(key_pairs, source, sink)
    /\ sink' = IF Raised(ret') THEN sink ELSE ret'.value
    /\ pc' = "map_done"
    /\ UNCHANGED <<key_pairs, source, scoreVars, matchVars, feedVars, clock>>

SpecMap == InitMap /\ [][CallTransferDictKeys]_vars

InitScore ==
    /\ pc = "score_call"
    /\ score_element \in ScoreElements
    /\ score = Idle
    /\ key_pairs = Idle /\ source = Idle /\ sink = Idle /\ ret = Idle
    /\ match = Idle /\ data = Idle
    /\ xml_matches = Idle /\ status_code = Idle /\ idx = Idle
    /\ groups = Idle /\ matches = Idle /\ exc = Idle
    /\ clock = Idle

CallParseScore ==
    /\ pc = "score_call"
    /\ score' = _parse_score(score_element)
    /\ pc' = "score_done"
    /\ UNCHANGED <<score_element, mapVars, matchVars, feedVars, clock>>

SpecScore == InitScore /\ [][CallParseScore]_vars

InitMatch ==
    /\ pc = "match_call"
    /\ match \in MatchElements
    /\ data = Idle
    /\ key_pairs = Idle /\ source = Idle /\ sink = Idle /\ ret = Idle
    /\ score_element = Idle /\ score = Idle
    /\ xml_matches = Idle /\ status_code = Idle /\ idx = Idle
    /\ groups = Idle /\ matches = Idle /\ exc = Idle
    /\ clock \in Clocks

CallParseSingleMatch ==
    /\ pc = "match_call"
    /\ data' = _parse_single_match(match)
    /\ pc' = "match_done"
    /\ UNCHANGED <<match, mapVars, scoreVars, feedVars, clock>>

SpecMatch == InitMatch /\ [][CallParseSingleMatch]_vars

(***************************************************************************)
(* The feed pipeline.  xml_matches is the response body, as the sequence   *)
(* of its match elements in document order.                                *)
(***************************************************************************)
InitFeed ==
    /\ pc = "request"
    /\ xml_matches \in Feeds
    /\ status_code = Idle /\ idx = Idle /\ groups = Idle /\ matches = Idle /\ exc = Idle
    /\ key_pairs = Idle /\ source = Idle /\ sink = Idle /\ ret = Idle
    /\ score_element = Idle /\ score = Idle
    /\ match = Idle /\ data = Idle
    /\ clock \in Clocks

\* requests.get(url) and the test of result.status_code
request_matches ==
    /\ pc = "request"
    /\ \E code \in StatusCodes :
          /\ status_code' = code
          /\ IF StatusOk(code)
             THEN /\ pc' = "group_by"
                  /\ idx' = 1
                  /\ groups' = <<>>
                  /\ exc' = exc
             ELSE /\ pc' = "raised"
                  /\ exc' = FetchError(code)
                  /\ UNCHANGED <<idx, groups>>
    /\ UNCHANGED <<xml_matches, matches, mapVars, scoreVars, matchVars, clock>>

\* one iteration of the for loop of _group_by
GroupByIterate ==
    /\ pc = "group_by"
    /\ idx <= Len(xml_matches)
    /\ LET stepped == GroupByStep(groups, xml_matches, idx)
       IN  IF Raised(stepped)
           THEN /\ pc' = "raised"
                /\ exc' = stepped
                /\ UNCHANGED <<idx, groups>>
           ELSE /\ groups' = stepped.value
                /\ idx' = idx + 1
                /\ UNCHANGED <<pc, exc>>
    /\ UNCHANGED <<xml_matches, status_code, matches, mapVars, scoreVars, matchVars, clock>>

\* the loop is over: _group_by returns and the list comprehension starts
GroupByReturn ==
    /\ pc = "group_by"
    /\ idx > Len(xml_matches)
    /\ pc' = "join"
    /\ idx' = 1
    /\ matches' = <<>>
    /\ UNCHANGED <<xml_matches, status_code, groups, exc, mapVars, scoreVars, matchVars, clock>>

\* one element of [_join_match_group(group) for group in matches]
JoinGroup ==
    /\ pc = "join"
    /\ idx <= Len(groups)
    /\ LET record == _join_match_group(GroupElements(xml_matches, groups[idx]))
       IN  IF Raised(record)
           THEN /\ pc' = "raised"
                /\ exc' = record
                /\ UNCHANGED <<idx, matches>>
           ELSE /\ matches' = Append(matches, record.value)
                /\ idx' = idx + 1
                /\ UNCHANGED <<pc, exc>>
    /\ UNCHANGED <<xml_matches, status_code, groups, mapVars, scoreVars, matchVars, clock>>

\* _parse_matches and request_matches return the list
ReturnMatches ==
    /\ pc = "join"
    /\ idx > Len(groups)
    /\ pc' = "done"
    /\ UNCHANGED <<xml_matches, status_code, idx, groups, matches, exc, mapVars, scoreVars, matchVars, clock>>

Next == request_matches \/ GroupByIterate \/ GroupByReturn \/ JoinGroup \/ ReturnMatches
Spec == InitFeed /\ [][Next]_vars

(***************************************************************************)
(* Properties of the feed pipeline (Spec)                                  *)
(***************************************************************************)
Carries(element) == "datapath" \in DOMAIN element.attrs
Sound(element) == Carries(element) /\ ~Raised(_parse_single_match(element))
AllSound == \A p \in 1..Len(xml_matches) : Sound(xml_matches[p])
Finished == pc \in {"done", "raised"}

\* positions of the feed at which a datapath value occurs for the first time
FirstPositions ==
    {p \in 1..Len(xml_matches) :
        \A q \in 1..(p - 1) : xml_matches[q].attrs["datapath"] # xml_matches[p].attrs["datapath"]}
RankOf(p) == Cardinality({q \in FirstPositions : q <= p})

\* C1: when every element of the feed carries a datapath and parses, a call
\* that got status 200 returns a list with exactly one record per distinct
\* datapath of the feed, the records in the order in which their datapath
\* first occurs in the feed.
C1_OneRecordPerDatapath ==
    (Finished /\ status_code = 200 /\ AllSound) =>
        /\ pc = "done"
        /\ Len(matches) = Cardinality(FirstPositions)
        /\ \A p \in FirstPositions :
              matches[RankOf(p)]["datapath"] = xml_matches[p].attrs["datapath"]

C1_Witness ==
    /\ pc = "done"
    /\ Len(xml_matches) = 3
    /\ Len(matches) = 2
    /\ xml_matches[1].attrs["datapath"] = "456"
    /\ xml_matches[2].attrs["datapath"] = "123"
    /\ xml_matches[3].attrs["datapath"] = "456"
    /\ matches[1]["datapath"] = "456"
    /\ matches[2]["datapath"] = "123"

\* the records parsed from the elements of the g-th group, and the groups
\* whose merged record has been built
ParsedOf(g) ==
    [j \in 1..Len(groups[g].items) |-> _parse_single_match(xml_matches[groups[g].items[j]]).value]
Joined == IF pc \in {"join", "done", "raised"} THEN 1..Len(matches) ELSE {}
LastWith(parsed, k) ==
    CHOOSE j \in 1..Len(parsed) :
        /\ k \in DOMAIN parsed[j]
        /\ \A i \in (j + 1)..Len(parsed) : k \notin DOMAIN parsed[i]

\* C2: the merged record of a group has exactly the keys that occur in the
\* parsed record of some element of the group, and holds under each key the
\* value of the last element of the group whose parsed record has that key.
C2_FieldwiseLastWriteWins ==
    \A g \in Joined :
        LET parsed == ParsedOf(g)
        IN  /\ DOMAIN matches[g] = UNION {DOMAIN parsed[j] : j \in 1..Len(parsed)}
            /\ \A k \in DOMAIN matches[g] : matches[g][k] = parsed[LastWith(parsed, k)][k]

C2_Witness ==
    /\ pc = "done"
    /\ Len(xml_matches) = 3
    /\ Len(matches) = 1
    /\ xml_matches[1].attrs = [datapath |-> "123", vcity |-> "Pune"]
    /\ xml_matches[2].attrs = [datapath |-> "123", vcity |-> "Delhi"]
    /\ xml_matches[3].attrs = [datapath |-> "123"]
    /\ matches[1]["city"] = "Delhi"

\* C6: a response whose status is not 200 makes the call fail with the fetch
\* error that carries that status, with no grouping and no record built from
\* the body; a call that returns a list got status 200 and returns what
\* parsing the body gives, and a call that fails after status 200 fails with
\* the error of parsing the body.
C6_Only200Succeeds ==
    /\ (pc # "request" /\ status_code # 200) =>
          /\ pc = "raised"
          /\ exc = FetchError(status_code)
          /\ groups = Idle
          /\ matches = Idle
    /\ pc = "done" => (status_code = 200 /\ Return(matches) = _parse_matches(xml_matches))
    /\ (pc = "raised" /\ status_code = 200) => exc = _parse_matches(xml_matches)

C6_Witness ==
    /\ pc = "raised"
    /\ status_code = 204
    /\ exc = FetchError(204)
    /\ Len(xml_matches) = 2
    /\ AllSound

\* C7: a call never returns a list when some element of the feed lacks the
\* datapath or fails to parse, whatever the position of that element and
\* however many records were built before it; the call ends with the error
\* that the grouping or the parse of an element of the feed raised.
C7_NoPartialResults ==
    /\ pc = "done" => AllSound
    /\ (pc = "raised" /\ status_code = 200) =>
          /\ Raised(exc)
          /\ \/ exc = _group_by(xml_matches)
             \/ \E p \in 1..Len(xml_matches) : exc = _parse_single_match(xml_matches[p])

C7_Witness ==
    /\ pc = "raised"
    /\ status_code = 200
    /\ Len(xml_matches) = 3
    /\ Sound(xml_matches[1])
    /\ Sound(xml_matches[2])
    /\ ~Raised(_group_by(xml_matches))
    /\ Raised(_parse_single_match(xml_matches[3]))
    /\ Len(matches) = 1

\* the groups _group_by returned
Grouped == pc \in {"join", "done"}
RECURSIVE SizeSum(_)
SizeSum(grps) == IF grps = <<>> THEN 0 ELSE Len(grps[1].items) + SizeSum(Tail(grps))
Places(p) ==
    {gj \in (1..Len(groups)) \X (1..Len(xml_matches)) :
        gj[2] <= Len(groups[gj[1]].items) /\ groups[gj[1]].items[gj[2]] = p}

\* C10: the groups _group_by returns partition its input: every element is
\* at exactly one place of exactly one group, the elements of a group have
\* the key of the group, no two groups have the same key, every group keeps
\* the feed order of its elements, and the group sizes sum to the input length.
C10_GroupsPartitionInput ==
    Grouped =>
        /\ \A p \in 1..Len(xml_matches) : Cardinality(Places(p)) = 1
        /\ \A g \in 1..Len(groups) : \A j \in 1..Len(groups[g].items) :
              /\ groups[g].items[j] \in 1..Len(xml_matches)
              /\ xml_matches[groups[g].items[j]].attrs["datapath"] = groups[g].key
        /\ \A g, h \in 1..Len(groups) : g # h => groups[g].key # groups[h].key
        /\ \A g \in 1..Len(groups) : \A i, j \in 1..Len(groups[g].items) :
              i < j => groups[g].items[i] < groups[g].items[j]
        /\ SizeSum(groups) = Len(xml_matches)

C10_Witness ==
    /\ pc = "join"
    /\ Len(groups) = 2
    /\ groups[1].items = <<1, 3>>
    /\ groups[2].items = <<2>>
    /\ xml_matches[1] = xml_matches[3]

(***************************************************************************)
(* Properties of _transfer_dict_keys (SpecMap)                             *)
(***************************************************************************)
PairPresent(i) == key_pairs[i][1] \in DOMAIN source.attrs
Copied(k) == \E i \in 1..Len(key_pairs) : PairPresent(i) /\ key_pairs[i][2] = k
\* no later pair with a present source key writes the same output key
LastWriter(i) ==
    /\ PairPresent(i)
    /\ \A j \in (i + 1)..Len(key_pairs) : ~(PairPresent(j) /\ key_pairs[j][2] = key_pairs[i][2])

\* C5 as stated: in every call, the call does not raise, the destination
\* holds after it source[k1] under k2 for every pair whose k1 is in the
\* source, no other key is added, and the entries that no present pair
\* writes are unchanged.
C5_EveryPresentPairHeld ==
    [][pc' = "map_done" =>
        /\ ~Raised(ret')
        /\ \A i \in 1..Len(key_pairs) : PairPresent(i) =>
              /\ key_pairs[i][2] \in DOMAIN sink'
              /\ sink'[key_pairs[i][2]] = source.attrs[key_pairs[i][1]]
        /\ \A k \in DOMAIN sink' : k \in DOMAIN sink \/ Copied(k)
        /\ \A k \in DOMAIN sink : ~Copied(k) => (k \in DOMAIN sink' /\ sink'[k] = sink[k])]_vars

\* C5 amended: in every call, the call does not raise on a missing source
\* key; after it every output key written by some pair whose source key is
\* present holds the source value of the last such pair in the list, output
\* keys of absent source keys are not added, and every other destination
\* entry is unchanged.
C5_LastPresentPairHeld ==
    [][pc' = "map_done" =>
        /\ ~Raised(ret')
        /\ \A i \in 1..Len(key_pairs) : LastWriter(i) =>
              /\ key_pairs[i][2] \in DOMAIN sink'
              /\ sink'[key_pairs[i][2]] = source.attrs[key_pairs[i][1]]
        /\ \A k \in DOMAIN sink' : k \in DOMAIN sink \/ Copied(k)
        /\ \A k \in DOMAIN sink : ~Copied(k) => (k \in DOMAIN sink' /\ sink'[k] = sink[k])]_vars

\* two present pairs name one output key: the later one is held, in the
\* dict that was passed and in what the call returned
C5_Witness ==
    /\ pc = "map_done"
    /\ key_pairs = << <<"vcity", "city">>, <<"grnd", "city">> >>
    /\ source.attrs = [vcity |-> "Pune", grnd |-> "Lords"]
    /\ sink = [city |-> "Lords", id |-> "old"]
    /\ ret = Return(sink)

(***************************************************************************)
(* Properties of _parse_score and _parse_innings (SpecScore)               *)
(***************************************************************************)
Meaningful == SelectSeq(score_element.children, NotNewline)
WellFormedTriple(c, n) == ~Raised(_parse_innings(c[n], c[n + 1], c[n + 2]))
InningsOf(c, n) == [batting |-> ParseSide(c[n + 1]).value, bowling |-> ParseSide(c[n + 2]).value]

\* C4: on three well-formed children _parse_score returns a list of exactly
\* one innings record; on six it returns, without raising, a list of exactly
\* two, the first of children 1-3 and the second of children 4-6.
C4_ScoreIsListOfInnings ==
    pc = "score_done" =>
        /\ (Len(Meaningful) = 3 /\ WellFormedTriple(Meaningful, 1)) =>
              /\ ~Raised(score)
              /\ DOMAIN score.value = 1..1
              /\ score.value[1] = InningsOf(Meaningful, 1)
        /\ (Len(Meaningful) = 6 /\ WellFormedTriple(Meaningful, 1) /\ WellFormedTriple(Meaningful, 4)) =>
              /\ ~Raised(score)
              /\ DOMAIN score.value = 1..2
              /\ score.value[1] = InningsOf(Meaningful, 1)
              /\ score.value[2] = InningsOf(Meaningful, 4)

\* the coercion the claim describes: empty or all zeros is false
ZeroLike(s) == \A i \in 1..Len(s) : s[i] = 48
ClaimedFlag(s) == ~ZeroLike(s)
InngsAttrs(side) == Find(side.Inngs).attrs

\* C9: the declare and follow_on flags of each side are true for a
\* non-empty, non-zero-like Decl / FollowOn text and false for an empty or
\* zero-like one such as "0".
C9_ZeroLikeFlagIsFalse ==
    (pc = "score_done" /\ ~Raised(score)) =>
        /\ score.value.batting.declare = ClaimedFlag(InngsAttrs(Meaningful[2])["Decl"])
        /\ score.value.batting.follow_on = ClaimedFlag(InngsAttrs(Meaningful[2])["FollowOn"])
        /\ score.value.bowling.declare = ClaimedFlag(InngsAttrs(Meaningful[3])["Decl"])
        /\ score.value.bowling.follow_on = ClaimedFlag(InngsAttrs(Meaningful[3])["FollowOn"])

(***************************************************************************)
(* Properties of _parse_single_match (SpecMatch)                           *)
(***************************************************************************)
TeamOf(team) == [name |-> team.attrs["Name"], id |-> team.attrs["id"]]

\* C3: in a record _parse_single_match produces, team_one and team_two are
\* present exactly when the match has exactly two team elements, and are
\* then the name and id of the first and of the second team in document
\* order; with any other number of teams neither key is present.
C3_TeamsIffExactlyTwo ==
    (pc = "match_done" /\ ~Raised(data)) =>
        /\ ("team_one" \in DOMAIN data.value) <=> (Len(match.Tm) = 2)
        /\ ("team_two" \in DOMAIN data.value) <=> (Len(match.Tm) = 2)
        /\ Len(match.Tm) = 2 =>
              /\ data.value["team_one"] = TeamOf(match.Tm[1])
              /\ data.value["team_two"] = TeamOf(match.Tm[2])

C3_Witness ==
    /\ pc = "match_done"
    /\ ~Raised(data)
    /\ match.Tm = <<TeamAUS, TeamIND>>
    /\ data.value["team_one"] = [name |-> "Australia", id |-> "4"]
    /\ data.value["team_two"] = [name |-> "India", id |-> "2"]

WellFormedTime == ~Raised(_construct_time(Find(match.Tme)))
\* what is present is well formed: every team has a name and an id, and the
\* score element, if any, parses
PresentPartsWellFormed ==
    /\ ~AnyRaised(TeamEntries(match))
    /\ match.mscr # <<>> => ~Raised(_parse_score(match.mscr[1]))
\* the output keys whose source is present
ExpectedKeys ==
    {base_keys[i][2] : i \in {n \in 1..Len(base_keys) : base_keys[n][1] \in DOMAIN match.attrs}}
    \cup (IF Len(match.Tm) = 2 THEN {"team_one", "team_two"} ELSE {})
    \cup (IF match.state = <<>> THEN {}
          ELSE {state_keys[i][2] : i \in {n \in 1..Len(state_keys) : state_keys[n][1] \in DOMAIN match.state[1].attrs}})
    \cup {"time"}
    \cup (IF match.mscr = <<>> THEN {} ELSE {"score"})

\* C8: _parse_single_match fails when the match has no time element; for a
\* match with a well-formed time element it returns a record whatever else
\* is absent (base attributes, state attributes, the state element, team
\* elements, the score element), with exactly the output keys whose source
\* is present.
C8_AbsenceTolerated ==
    pc = "match_done" =>
        /\ match.Tme = <<>> => Raised(data)
        /\ (WellFormedTime /\ PresentPartsWellFormed) =>
              /\ ~Raised(data)
              /\ DOMAIN data.value = ExpectedKeys

====
